---------------------------- MODULE Spec2Model ----------------------------
(***************************************************************************)
(* A model of the compatibility / resilience layer of the HaloPSA workflow *)
(* MCP server:                                                             *)
(*   - ConnectionStateManager and TimerManager (utils.ts),                 *)
(*   - the patched initialize handler (mcp-compatibility.js),              *)
(*   - wrapToolHandler / normalizeContext / normalizeResult                *)
(*     (mcp-compatibility.js),                                             *)
(*   - the bootstrap of the entry programs: handleError, startServer and   *)
(*     graceful shutdown (index.ts, server/index.js, halopsa-mcp.js).      *)
(* Each component has its own specification over its own variables; the   *)
(* other components' variables stay at their initial values.               *)
(***************************************************************************)
EXTENDS Integers, Sequences, FiniteSets, TLC

(* ------------------------------ bounds -------------------------------- *)

\* largest value of the clock Date.now() the model explores
MaxTime == 2
\* longest callback list of the connection tracker
MaxCallbacks == 2
\* number of timer handles the runtime hands out
MaxHandles == 3
\* number of tool calls served
MaxCalls == 2
\* number of handshakes served
MaxHandshakes == 2
\* milliseconds of the server's clock the model explores after boot
MaxClock == 7500
\* number of periodic restart intervals startServer may set
MaxRestarts == 2
MaxTools == 2
MaxRaces == 3
MaxRetryOption == 2
MaxRequests == 2
MaxTokens == 3
MaxSteps == 2
MaxMinutes == 6
MaxListeners == 2

VARIABLES
  \* ConnectionStateManager
  isConnected,          \* _isConnected
  lastConnected,        \* _lastConnected
  now,                  \* Date.now()
  disconnectCallbacks,  \* _disconnectCallbacks
  reconnectCallbacks,   \* _reconnectCallbacks
  lastOp,               \* what the latest setConnected call did
  prevOp,               \* what the setConnected call before it did
  \* TimerManager
  timers,               \* _timers: Map id -> handle
  pending,              \* handles the event loop will still fire
  handles,              \* every handle created so far: kind, id, callback
  lastFire,             \* what the latest timer firing did
  lastSweep,            \* what the latest clearAll call did
  \* patched initialize handler
  configModels,         \* config.models of the server configuration
  handshake,            \* the latest handshake: request, attempts, outcome
  handshakes,           \* handshakes served so far
  \* wrapToolHandler
  nodeEnv,              \* process.env.NODE_ENV
  toolCall,             \* the latest tool call: handler, context, outcome
  toolCalls,            \* tool calls served so far
  \* diagnostic output
  diagnostics,          \* the diagnostic writes of the latest operation
  tokenCache,           \* tokenCache of halopsa-direct.js: empty or held
  \* tool registration
  addToolPatched,       \* mcp.addTool is the patched method
  mcpTools,             \* the tools the framework's addTool has stored
  lastAdd,              \* what the latest addTool call did
  lastCall,             \* what the latest call of a registered tool did
  lastParse,            \* the latest safeParse of a created validator
  \* withTimeout
  races,                \* the withTimeout calls: promise, timer, outcome
  retry,                \* the withRetry call under way: options, attempt, outcome
  \* upstream API clients
  apiRequests,          \* the upstream requests: client, phase, token, retries
  tokenCaches,          \* the cached token of each client, 0 when it has none
  issued,               \* tokens the upstream has granted so far
  rejectedTokens,       \* per client, the tokens a 401 has answered
  \* events of a running server
  steps,                \* the getWorkflowSteps calls: phase, outcome
  lastCheck,            \* what the latest 'reconnection-handler' check did
  connectEvent,         \* the latest dispatch of a 'connect' event
  \* server bootstrap
  entry,                \* the entry program that was launched
  exit,                 \* "running", or how the process ended
  lastEpipeErrorTime,   \* global.lastEpipeErrorTime
  lastTimeoutErrorTime, \* global.lastTimeoutErrorTime
  disconnectionCount,   \* global.disconnectionCount
  epipeLog,             \* the latest logged connection error, and whether
                        \* a start has succeeded since
  start,                \* where the start of the server stands
  restartIntervals,     \* periodic restart intervals set so far
  credential,           \* outcome of the credential acquisition
  transport,            \* calls made to the transport's start and stop
  lastHandled,          \* what the latest handleError call did
  lastStartFailure,     \* what the latest failed start led to
  shutdown              \* the shutdown under way, if any

connVars == <<isConnected, lastConnected, now, disconnectCallbacks,
              reconnectCallbacks, lastOp, prevOp>>
timerVars == <<timers, pending, handles, lastFire, lastSweep>>
initVars == <<configModels, handshake, handshakes>>
toolVars == <<nodeEnv, toolCall, toolCalls>>
logVars == <<diagnostics, tokenCache>>
registryVars == <<addToolPatched, mcpTools, lastAdd, lastCall, lastParse>>
raceVars == <<races, retry>>
apiVars == <<apiRequests, tokenCaches, issued, rejectedTokens>>
serverVars == <<entry, exit, lastEpipeErrorTime, lastTimeoutErrorTime,
                disconnectionCount, epipeLog, start, restartIntervals,
                credential, transport, lastHandled, lastStartFailure, shutdown>>
eventVars == <<steps, lastCheck, connectEvent>>
vars == <<connVars, timerVars, initVars, toolVars, logVars, registryVars,
         raceVars, apiVars, eventVars, serverVars>>

(* ---------------------- ConnectionStateManager ------------------------ *)

\* The callbacks a subscriber may register: one returns, one throws.
Callbacks == {"cbOk", "cbThrow"}

CallbackThrows(cb) == cb = "cbThrow"

\* The longest prefix of cbs that runs when nothing catches: up to and
\* including the first callback that throws.
RECURSIVE UpToFirstThrow(_)
UpToFirstThrow(cbs) ==
  IF cbs = <<>> THEN <<>>
  ELSE IF CallbackThrows(Head(cbs)) THEN <<Head(cbs)>>
  ELSE <<Head(cbs)>> \o UpToFirstThrow(Tail(cbs))

\* forEach without the try/catch: the first throw ends the loop and escapes.
RunCallbacksNoCatch(cbs) ==
  [invoked |-> UpToFirstThrow(cbs),
   logged  |-> <<>>,
   escaped |-> \E i \in 1..Len(cbs) : CallbackThrows(cbs[i])]

\* callbacks.forEach(cb => { try { cb() } catch (e) { console.error(..) } })
RunCallbacks(cbs) ==
  [invoked |-> cbs,
   logged  |-> SelectSeq(cbs, CallbackThrows),
   escaped |-> FALSE]

\* a level-triggered guard: every call counts as a change
StateChangesAlways(current, connected) == TRUE

\* if (this._isConnected !== connected)
StateChanges(current, connected) == current # connected

NoOp ==
  [valid |-> FALSE, arg |-> FALSE, pre |-> FALSE, preLast |-> 0,
   post |-> FALSE, postLast |-> 0, edge |-> "none", cbs |-> <<>>,
   invoked |-> <<>>, logged |-> <<>>, escaped |-> FALSE]

\* setConnected(connected), the whole call
SetConnected(connected) ==
  LET changed == StateChanges(isConnected, connected)
      cbs == IF connected THEN reconnectCallbacks ELSE disconnectCallbacks
      run == IF changed THEN RunCallbacks(cbs)
             ELSE [invoked |-> <<>>, logged |-> <<>>, escaped |-> FALSE]
  IN /\ isConnected' = IF changed THEN connected ELSE isConnected
     /\ lastConnected' = IF changed /\ connected THEN now ELSE lastConnected
     /\ prevOp' = lastOp
     /\ lastOp' = [valid |-> TRUE, arg |-> connected, pre |-> isConnected,
                   preLast |-> lastConnected, post |-> isConnected',
                   postLast |-> lastConnected',
                   edge |-> IF ~changed THEN "none"
                            ELSE IF connected THEN "reconnect" ELSE "disconnect",
                   cbs |-> cbs, invoked |-> run.invoked,
                   logged |-> run.logged, escaped |-> run.escaped]
     /\ UNCHANGED <<now, disconnectCallbacks, reconnectCallbacks>>
     /\ UNCHANGED <<timerVars, initVars, toolVars, logVars, registryVars, raceVars, apiVars, eventVars, serverVars>>

\* onDisconnect(callback)
OnDisconnect(cb) ==
  /\ Len(disconnectCallbacks) < MaxCallbacks
  /\ disconnectCallbacks' = Append(disconnectCallbacks, cb)
  /\ lastOp' = NoOp
  /\ prevOp' = NoOp
  /\ UNCHANGED <<isConnected, lastConnected, now, reconnectCallbacks>>
  /\ UNCHANGED <<timerVars, initVars, toolVars, logVars, registryVars, raceVars, apiVars, eventVars, serverVars>>

\* onReconnect(callback)
OnReconnect(cb) ==
  /\ Len(reconnectCallbacks) < MaxCallbacks
  /\ reconnectCallbacks' = Append(reconnectCallbacks, cb)
  /\ lastOp' = NoOp
  /\ prevOp' = NoOp
  /\ UNCHANGED <<isConnected, lastConnected, now, disconnectCallbacks>>
  /\ UNCHANGED <<timerVars, initVars, toolVars, logVars, registryVars, raceVars, apiVars, eventVars, serverVars>>

\* clearHandlers()
ClearHandlers ==
  /\ disconnectCallbacks' = <<>>
  /\ reconnectCallbacks' = <<>>
  /\ lastOp' = NoOp
  /\ prevOp' = NoOp
  /\ UNCHANGED <<isConnected, lastConnected, now>>
  /\ UNCHANGED <<timerVars, initVars, toolVars, logVars, registryVars, raceVars, apiVars, eventVars, serverVars>>

\* time passes between two calls
Tick ==
  /\ now < MaxTime
  /\ now' = now + 1
  /\ UNCHANGED <<isConnected, lastConnected, disconnectCallbacks,
                 reconnectCallbacks, lastOp, prevOp>>
  /\ UNCHANGED <<timerVars, initVars, toolVars, logVars, registryVars, raceVars, apiVars, eventVars, serverVars>>

ConnNext ==
  \/ \E c \in BOOLEAN : SetConnected(c)
  \/ \E cb \in Callbacks : OnDisconnect(cb)
  \/ \E cb \in Callbacks : OnReconnect(cb)
  \/ ClearHandlers
  \/ Tick

(* ---------------------------- TimerManager ---------------------------- *)

\* ids a caller may pass; a generated id (timer_<now>_<random>) is fresh
UserIds == {"a"}
CallerId(name) == <<"caller", name, 0>>
GeneratedId(h) == <<"generated", "", h>>

\* what a timer callback does when it runs
TimerCallbacks == {"ok", "throw"}

NoFire ==
  [valid |-> FALSE, handle |-> 0, kind |-> "none", id |-> GeneratedId(0),
   threw |-> FALSE, logged |-> FALSE, escaped |-> FALSE, removed |-> FALSE,
   swept |-> FALSE]

\* no clearAll call so far
NoSweep == [valid |-> FALSE, scheduled |-> {}, count |-> 0]

NextHandle == Cardinality(DOMAIN handles) + 1

\* the entries of the map other than key id
WithoutKey(map, id) == [k \in (DOMAIN map) \ {id} |-> map[k]]

\* this._timers.set(timerId, timer)
WithKey(map, id, h) == [k \in (DOMAIN map) \cup {id} |-> IF k = id THEN h ELSE map[k]]

\* try { callback() } catch (error) { console.error(..) }: the callback's
\* exception is logged and goes no further
TimerCallbackOutcome(cb) ==
  [threw |-> cb = "throw", logged |-> cb = "throw", escaped |-> FALSE]

\* the registry after a one-shot callback, were the delete placed after the
\* callback inside the try block
AfterOneShotNoFinally(map, id, threw) ==
  IF threw THEN map ELSE WithoutKey(map, id)

\* try { callback() } catch { log } finally { this._timers.delete(timerId) }
AfterOneShot(map, id, threw) == WithoutKey(map, id)

Schedule(kind, cb, id, h) ==
  /\ h <= MaxHandles
  /\ handles' = WithKey(handles, h, [kind |-> kind, id |-> id, cb |-> cb])
  /\ pending' = pending \cup {h}
  /\ timers' = WithKey(timers, id, h)
  /\ UNCHANGED <<lastFire, lastSweep>>
  /\ UNCHANGED <<connVars, initVars, toolVars, logVars, registryVars, raceVars, apiVars, eventVars, serverVars>>

\* setTimeout(callback, ms, id?)
SetTimeout(cb, id) == Schedule("once", cb, id, NextHandle)

\* setInterval(callback, ms, id?)
SetInterval(cb, id) == Schedule("interval", cb, id, NextHandle)

\* the event loop fires pending handle h: the wrapper the manager passed to
\* setTimeout / setInterval runs
Fire(h) ==
  /\ h \in pending
  /\ LET t == handles[h]
         ran == TimerCallbackOutcome(t.cb)
     IN IF t.kind = "once"
        THEN /\ timers' = AfterOneShot(timers, t.id, ran.threw)
             /\ pending' = pending \ {h}
             /\ lastFire' = [valid |-> TRUE, handle |-> h, kind |-> "once",
                             id |-> t.id, threw |-> ran.threw,
                             logged |-> ran.logged, escaped |-> ran.escaped,
                             removed |-> t.id \notin DOMAIN timers',
                             swept |-> h \in lastSweep.scheduled]
        ELSE /\ timers' = timers
             /\ pending' = pending
             /\ lastFire' = [valid |-> TRUE, handle |-> h, kind |-> "interval",
                             id |-> t.id, threw |-> ran.threw,
                             logged |-> ran.logged, escaped |-> ran.escaped,
                             removed |-> FALSE,
                             swept |-> h \in lastSweep.scheduled]
  /\ UNCHANGED <<handles, lastSweep>>
  /\ UNCHANGED <<connVars, initVars, toolVars, logVars, registryVars, raceVars, apiVars, eventVars, serverVars>>

\* clear(id)
Clear(id) ==
  /\ IF id \in DOMAIN timers
     THEN /\ pending' = pending \ {timers[id]}
          /\ timers' = WithoutKey(timers, id)
     ELSE UNCHANGED <<pending, timers>>
  /\ UNCHANGED <<handles, lastFire, lastSweep>>
  /\ UNCHANGED <<connVars, initVars, toolVars, logVars, registryVars, raceVars, apiVars, eventVars, serverVars>>

\* clearAll()
ClearAll ==
  /\ pending' = pending \ {timers[id] : id \in DOMAIN timers}
  /\ timers' = <<>>
  /\ lastSweep' = [valid |-> TRUE, scheduled |-> DOMAIN handles,
                   count |-> Cardinality(DOMAIN timers')]
  /\ UNCHANGED <<handles, lastFire>>
  /\ UNCHANGED <<connVars, initVars, toolVars, logVars, registryVars, raceVars, apiVars, eventVars, serverVars>>

\* count
TimerCount == Cardinality(DOMAIN timers)

TimerIds ==
  {CallerId(n) : n \in UserIds} \cup {GeneratedId(h) : h \in 1..(MaxHandles + 1)}

TimerNext ==
  \/ \E cb \in TimerCallbacks :
       \E id \in {CallerId(n) : n \in UserIds} \cup {GeneratedId(NextHandle)} :
         SetTimeout(cb, id)
  \/ \E cb \in TimerCallbacks :
       \E id \in {CallerId(n) : n \in UserIds} \cup {GeneratedId(NextHandle)} :
         SetInterval(cb, id)
  \/ \E h \in pending : Fire(h)
  \/ \E id \in TimerIds : Clear(id)
  \/ ClearAll

(* ---------------------- patched initialize handler ------------------- *)

\* PROTOCOL_VERSIONS
PROTOCOL_DEFAULT == "1.0"
PROTOCOL_LATEST == "2024-11-05"

\* An optional string field: undefined, or a value.
NoString == [def |-> FALSE, v |-> ""]
SomeString(s) == [def |-> TRUE, v |-> s]

\* An optional list of model names: undefined, or an array.
NoModels == [def |-> FALSE, list |-> <<>>]
Models(list) == [def |-> TRUE, list |-> list]

\* An optional capabilities object: undefined, or {models?, tools?, logging?}.
NoCaps == [def |-> FALSE, models |-> NoModels, tools |-> FALSE, logging |-> FALSE]
Caps(models, tools, logging) ==
  [def |-> TRUE, models |-> models, tools |-> tools, logging |-> logging]

\* An optional clientInfo object; a name or version of "" is a missing one.
NoClientInfo == [def |-> FALSE, name |-> "", version |-> ""]
ClientInfo(name, version) == [def |-> TRUE, name |-> name, version |-> version]

\* the handshake requests clients send (params may be missing altogether)
ClientInfos == {NoClientInfo, ClientInfo("X", "1"), ClientInfo("", "1")}
ProtocolVersions == {NoString, SomeString(PROTOCOL_DEFAULT), SomeString(PROTOCOL_LATEST)}
Capabilities == {NoCaps, Caps(NoModels, FALSE, FALSE), Caps(Models(<<"claude">>), TRUE, FALSE)}
Requests ==
  [clientInfo : ClientInfos, protocolVersion : ProtocolVersions,
   capabilities : Capabilities]

\* config.models of the server configuration: absent or a list
ConfigModels == {NoModels, Models(<<"claude-3">>)}

\* Error messages are sequences of words; message.includes(word).
Includes(message, word) == \E i \in 1..Len(message) : message[i] = word

\* the fields the underlying handler's schema found missing
MissingFields(req) ==
  (IF req.clientInfo.def /\ req.clientInfo.name # "" /\ req.clientInfo.version # ""
     THEN <<>> ELSE <<"clientInfo", "Required">>)
  \o (IF req.protocolVersion.def THEN <<>> ELSE <<"protocolVersion", "Required">>)
  \o (IF req.capabilities.def THEN <<>> ELSE <<"capabilities", "Required">>)

\* What the underlying handler may do with a request, besides validating it:
\* "none": nothing else goes wrong; "strict": its schema requires a field the
\* shim does not know; "broken": the session fails for an unrelated reason.
Faults == {"none", "strict", "broken"}

\* originalHandleInitialize.call(this, request, session): the server library's
\* own handler. It validates the request against its schema and answers with
\* the negotiated version, its capabilities and its identity.
OriginalHandleInitialize(req, fault) ==
  LET missing == MissingFields(req)
  IN IF fault = "broken"
       THEN [ok |-> FALSE, message |-> <<"Connection", "closed">>,
             protocolVersion |-> NoString, capabilities |-> NoCaps]
     ELSE IF missing # <<>> \/ fault = "strict"
       THEN [ok |-> FALSE,
             message |-> IF missing # <<>> THEN missing ELSE <<"session", "Required">>,
             protocolVersion |-> NoString, capabilities |-> NoCaps]
     ELSE [ok |-> TRUE, message |-> <<>>,
           protocolVersion |-> req.protocolVersion,
           capabilities |-> Caps(NoModels, TRUE, TRUE)]

\* config.models || []
ModelsOrEmpty(models) == IF models.def THEN models ELSE Models(<<>>)

\* a repair that writes the defaults into the client's own request object
RepairRequestInPlace(request, models) ==
  LET fixed == [clientInfo |-> request.clientInfo,
                protocolVersion |-> IF ~request.protocolVersion.def
                                    THEN SomeString(PROTOCOL_DEFAULT)
                                    ELSE request.protocolVersion,
                capabilities |-> IF ~request.capabilities.def
                                 THEN Caps(ModelsOrEmpty(models), TRUE, FALSE)
                                 ELSE request.capabilities]
  IN [safe |-> fixed, client |-> fixed]

\* safeRequest = {...request, params: {...request.params}}, then the missing
\* protocolVersion and capabilities are filled in on the copy. `client` is the
\* client's own request object afterwards.
RepairRequest(request, models) ==
  [safe |-> [clientInfo |-> request.clientInfo,
             protocolVersion |-> IF ~request.protocolVersion.def
                                 THEN SomeString(PROTOCOL_DEFAULT)
                                 ELSE request.protocolVersion,
             capabilities |-> IF ~request.capabilities.def
                              THEN Caps(ModelsOrEmpty(models), TRUE, FALSE)
                              ELSE request.capabilities],
   client |-> request]

\* minimalRequest: clientInfo (or UnknownClient) plus hardcoded defaults
MinimalRequest(request) ==
  [clientInfo |-> IF request.clientInfo.def THEN request.clientInfo
                  ELSE ClientInfo("UnknownClient", "1.0.0"),
   protocolVersion |-> SomeString(PROTOCOL_DEFAULT),
   capabilities |-> Caps(Models(<<>>), TRUE, FALSE)]

\* the simulated init response of the last rung
SynthesizedResponse ==
  [protocolVersion |-> SomeString(PROTOCOL_LATEST),
   capabilities |-> Caps(NoModels, TRUE, TRUE)]

\* a negotiator that retries after no error at all
IsRequiredErrorNever(message) == FALSE

\* error.message && error.message.includes('Required')
IsRequiredError(message) == message # <<>> /\ Includes(message, "Required")

NoResponse == [protocolVersion |-> NoString, capabilities |-> NoCaps]

\* mcp._handleInitialize(request, session) as patched: what it hands to the
\* underlying handler, attempt by attempt, and how it ends. f1 and f2 are what
\* the underlying handler does on the first and on the second attempt.
HandleInitialize(request, models, f1, f2) ==
  LET repaired == RepairRequest(request, models)
      r1 == OriginalHandleInitialize(repaired.safe, f1)
      minimal == MinimalRequest(request)
      r2 == OriginalHandleInitialize(minimal, f2)
      base == [request |-> request, client |-> repaired.client, valid |-> TRUE]
  IN IF r1.ok
       THEN base @@ [handed |-> <<repaired.safe>>, errors |-> <<>>,
                     outcome |-> "result", rung |-> "repaired",
                     response |-> [protocolVersion |-> r1.protocolVersion,
                                   capabilities |-> r1.capabilities],
                     raised |-> <<>>]
     ELSE IF ~IsRequiredError(r1.message)
       THEN base @@ [handed |-> <<repaired.safe>>, errors |-> <<r1.message>>,
                     outcome |-> "raised", rung |-> "repaired",
                     response |-> NoResponse, raised |-> r1.message]
     ELSE IF r2.ok
       THEN base @@ [handed |-> <<repaired.safe, minimal>>,
                     errors |-> <<r1.message>>,
                     outcome |-> "result", rung |-> "minimal",
                     response |-> [protocolVersion |-> r2.protocolVersion,
                                   capabilities |-> r2.capabilities],
                     raised |-> <<>>]
     ELSE base @@ [handed |-> <<repaired.safe, minimal>>,
                   errors |-> <<r1.message, r2.message>>,
                   outcome |-> "result", rung |-> "synthesized",
                   response |-> SynthesizedResponse, raised |-> <<>>]

NoHandshake ==
  [request |-> [clientInfo |-> NoClientInfo, protocolVersion |-> NoString,
                capabilities |-> NoCaps],
   client |-> [clientInfo |-> NoClientInfo, protocolVersion |-> NoString,
               capabilities |-> NoCaps],
   valid |-> FALSE, handed |-> <<>>, errors |-> <<>>, outcome |-> "none",
   rung |-> "none", response |-> NoResponse, raised |-> <<>>]

\* the stream a method of the runtime's console writes to: console.warn and
\* console.error write to stderr, every other method to stdout
ConsoleStream(method) ==
  IF method \in {"warn", "error"} THEN "stderr" ELSE "stdout"

\* one diagnostic write: who wrote it, through which method, what, and where
\* it went
ConsoleWrite(source, method, what) ==
  [source |-> source, method |-> method, what |-> what,
   stream |-> ConsoleStream(method)]

\* the console calls of one run of the patched initialize handler
NegotiatorWrites(h) ==
  {ConsoleWrite("negotiator", "debug", "Initialize request")}
  \cup (IF ~h.request.protocolVersion.def
          THEN {ConsoleWrite("negotiator", "warn", "no protocolVersion")}
        ELSE {})
  \cup (IF ~h.request.capabilities.def
          THEN {ConsoleWrite("negotiator", "warn", "no capabilities")}
        ELSE {})
  \cup (IF Len(h.errors) >= 1
          THEN {ConsoleWrite("negotiator", "error", "Protocol negotiation error")}
        ELSE {})
  \cup (IF Len(h.handed) >= 2
          THEN {ConsoleWrite("negotiator", "warn", "Falling back")}
        ELSE {})
  \cup (IF Len(h.errors) >= 2
          THEN {ConsoleWrite("negotiator", "error", "Fallback initialization failed")}
        ELSE {})

\* a client sends an initialize request and the patched handler answers it
Initialize(request, f1, f2) ==
  /\ handshakes < MaxHandshakes
  /\ handshakes' = handshakes + 1
  /\ handshake' = HandleInitialize(request, configModels, f1, f2)
  /\ diagnostics' = NegotiatorWrites(handshake')
  /\ UNCHANGED <<configModels, tokenCache>>
  /\ UNCHANGED <<connVars, timerVars, toolVars, registryVars, raceVars, apiVars, eventVars, serverVars>>

InitializeNext ==
  \E request \in Requests : \E f1 \in Faults : \E f2 \in Faults :
    Initialize(request, f1, f2)

(* ------------------------- JavaScript values -------------------------- *)

\* A JavaScript value: its kind t, a string s, a number n and, for an object or
\* an array, its own enumerable properties in insertion order.
JsUndefined == [t |-> "undefined", s |-> "", n |-> 0, kids |-> <<>>]
JsNull == [t |-> "null", s |-> "", n |-> 0, kids |-> <<>>]
JsStr(s) == [t |-> "string", s |-> s, n |-> 0, kids |-> <<>>]
JsNum(n) == [t |-> "number", s |-> "", n |-> n, kids |-> <<>>]
JsBool(b) == [t |-> "boolean", s |-> "", n |-> IF b THEN 1 ELSE 0, kids |-> <<>>]
JsBigInt(n) == [t |-> "bigint", s |-> "", n |-> n, kids |-> <<>>]
JsFunction == [t |-> "function", s |-> "", n |-> 0, kids |-> <<>>]
Prop(k, v) == [k |-> k, v |-> v]
JsObj(props) == [t |-> "object", s |-> "", n |-> 0, kids |-> props]
JsArr(items) ==
  [t |-> "array", s |-> "", n |-> 0,
   kids |-> [i \in 1..Len(items) |-> Prop("", items[i])]]
\* an object one of whose properties refers back to the object itself
JsCircular == [t |-> "object", s |-> "circular", n |-> 0, kids |-> <<>>]
\* new Error(message), with code set when code # ""
JsError(message, code) ==
  [t |-> "error", s |-> message, n |-> 0,
   kids |-> IF code = "" THEN <<>> ELSE <<Prop("code", JsStr(code))>>]

\* typeof v === 'object'
TypeofObject(v) == v.t \in {"object", "array", "error", "null"}

\* v[key]: an own property, the message or stack of an Error, else undefined
Get(v, key) ==
  IF \E i \in 1..Len(v.kids) : v.kids[i].k = key
    THEN v.kids[CHOOSE i \in 1..Len(v.kids) : v.kids[i].k = key].v
  ELSE IF v.t = "error" /\ key = "message" THEN JsStr(v.s)
  ELSE IF v.t = "error" /\ key = "stack" THEN JsStr("Error: " \o v.s \o " at handler")
  ELSE JsUndefined

\* reading a property of undefined or null throws a TypeError
PropertyReadThrows(v) == v.t \in {"undefined", "null"}

\* the truthiness of v in a condition
Truthy(v) ==
  CASE v.t \in {"undefined", "null"} -> FALSE
    [] v.t = "string" -> v.s # ""
    [] v.t \in {"number", "bigint", "boolean"} -> v.n # 0
    [] OTHER -> TRUE

\* String(v) of a primitive
ToJsString(v) ==
  CASE v.t = "string" -> v.s
    [] v.t \in {"number", "bigint"} -> ToString(v.n)
    [] v.t = "boolean" -> IF v.n = 1 THEN "true" ELSE "false"
    [] v.t = "function" -> "function () {}"
    [] OTHER -> v.t

\* JSON.stringify throws a TypeError on a BigInt and on a circular structure.
RECURSIVE StringifyThrows(_)
StringifyThrows(v) ==
  \/ v.t = "bigint"
  \/ v.s = "circular" /\ v.t = "object"
  \/ \E i \in 1..Len(v.kids) : StringifyThrows(v.kids[i].v)

\* values JSON leaves out of an object and writes as null in an array
Unserializable(v) == v.t \in {"undefined", "function"}

RECURSIVE JoinStrings(_, _)
JoinStrings(parts, sep) ==
  IF parts = <<>> THEN ""
  ELSE IF Len(parts) = 1 THEN parts[1]
  ELSE parts[1] \o sep \o JoinStrings(Tail(parts), sep)

\* The JSON text of v with indentation unit ind ("" for the compact form) at
\* current indentation cur. The strings of the model need no escaping.
RECURSIVE Serialize(_, _, _)
Serialize(v, ind, cur) ==
  LET inner == cur \o ind
      nl(x) == IF ind = "" THEN "" ELSE "\n" \o x
      colon == IF ind = "" THEN ":" ELSE ": "
      kept == SelectSeq(v.kids, LAMBDA p : ~Unserializable(p.v))
  IN CASE v.t = "string" -> "\"" \o v.s \o "\""
       [] v.t = "number" -> ToString(v.n)
       [] v.t = "boolean" -> IF v.n = 1 THEN "true" ELSE "false"
       [] v.t = "array" ->
            IF v.kids = <<>> THEN "[]"
            ELSE "[" \o nl(inner)
                 \o JoinStrings([i \in 1..Len(v.kids) |->
                                   IF Unserializable(v.kids[i].v) THEN "null"
                                   ELSE Serialize(v.kids[i].v, ind, inner)],
                                "," \o nl(inner))
                 \o nl(cur) \o "]"
       [] v.t \in {"object", "error"} ->
            IF kept = <<>> THEN "{}"
            ELSE "{" \o nl(inner)
                 \o JoinStrings([i \in 1..Len(kept) |->
                                   "\"" \o kept[i].k \o "\"" \o colon
                                   \o Serialize(kept[i].v, ind, inner)],
                                "," \o nl(inner))
                 \o nl(cur) \o "}"
       [] OTHER -> "null"

\* JSON.stringify(v, null, indent): a string, undefined, or a TypeError
JsonStringify(v, ind) ==
  IF StringifyThrows(v) THEN [threw |-> TRUE, v |-> JsUndefined]
  ELSE IF Unserializable(v) THEN [threw |-> FALSE, v |-> JsUndefined]
  ELSE [threw |-> FALSE, v |-> JsStr(Serialize(v, ind, ""))]

(* --------------- normalizeContext / normalizeResult ------------------- *)

TextItem(text) == JsObj(<<Prop("type", JsStr("text")), Prop("text", text)>>)

\* a check that reads a property no content item has, and so accepts none
HasContentTypeNever(v) == FALSE

\* result.type && (result.type === 'text' || result.type === 'image')
HasContentType(v) ==
  LET type == Get(v, "type")
  IN type.t = "string" /\ type.s \in {"text", "image"}

\* item && typeof item === 'object' && item.type && (text or image)
IsValidItem(item) == Truthy(item) /\ TypeofObject(item) /\ HasContentType(item)

\* the fallback of the catch block
NormalizeFallback == TextItem(JsStr("Error occurred while processing the result"))

\* the body of normalizeResult's try block: the value it returns, or threw
NormalizeBody(result, env) ==
  LET text(r) == [threw |-> r.threw, v |-> TextItem(r.v)]
      done(v) == [threw |-> FALSE, v |-> v]
      content == Get(result, "content")
      value == Get(result, "value")
  IN IF result.t \in {"null", "undefined"}
       THEN done(TextItem(JsStr("Operation completed successfully with no result")))
     ELSE IF result.t = "string" THEN done(TextItem(result))
     ELSE IF result.t = "error"
       THEN text(JsonStringify(
              JsObj(<<Prop("error", JsStr(result.s)),
                      Prop("details", IF env = "development"
                                      THEN Get(result, "stack") ELSE JsNull)>>),
              "  "))
     ELSE IF TypeofObject(result) /\ HasContentType(result) THEN done(result)
     ELSE IF TypeofObject(result) /\ Truthy(content) /\ content.t = "array"
       THEN IF \A i \in 1..Len(content.kids) : IsValidItem(content.kids[i].v)
              THEN done(result)
            ELSE LET r == JsonStringify(content, "  ")
                 IN [threw |-> r.threw,
                     v |-> JsObj(<<Prop("content", JsArr(<<TextItem(r.v)>>))>>)]
     ELSE IF TypeofObject(result)
       THEN IF value.t # "undefined"
              THEN IF value.t = "string" THEN done(TextItem(value))
                   ELSE text(JsonStringify(value, "  "))
            ELSE text(JsonStringify(result, "  "))
     ELSE done(TextItem(JsStr(ToJsString(result))))

\* normalizeResult without its try/catch
NormalizeResultNoCatch(result, env) ==
  LET body == NormalizeBody(result, env)
  IN [raised |-> body.threw, v |-> body.v]

\* normalizeResult(result): try { body } catch (error) { fallback }
NormalizeResult(result, env) ==
  LET body == NormalizeBody(result, env)
  IN [raised |-> FALSE, v |-> IF body.threw THEN NormalizeFallback ELSE body.v]

\* normalizeContext(context): a copy with log and reportProgress ensured
NormalizeContext(context) ==
  LET own == IF context.t = "object" THEN context.kids ELSE <<>>
      copy == JsObj(own)
      withLog == IF Truthy(Get(copy, "log")) THEN copy
                 ELSE JsObj(SelectSeq(own, LAMBDA p : p.k # "log")
                            \o <<Prop("log",
                                 JsObj(<<Prop("debug", JsFunction),
                                         Prop("info", JsFunction),
                                         Prop("warn", JsFunction),
                                         Prop("error", JsFunction)>>))>>)
  IN IF Truthy(Get(withLog, "reportProgress")) THEN withLog
     ELSE JsObj(SelectSeq(withLog.kids, LAMBDA p : p.k # "reportProgress")
                \o <<Prop("reportProgress", JsFunction)>>)

(* --------------------------- wrapToolHandler -------------------------- *)

\* the standardized error response for a caught error
ErrorEnvelope(error, env) ==
  TextItem(JsonStringify(
    JsObj(<<Prop("error",
      JsObj(<<Prop("message", Get(error, "message")),
              Prop("code", IF Truthy(Get(error, "code")) THEN Get(error, "code")
                           ELSE JsStr("EXECUTION_ERROR")),
              Prop("stack", IF env = "development" THEN Get(error, "stack")
                            ELSE JsUndefined)>>))>>),
    "").v)

\* The catch block of the wrapper: it reads context.log and error.message
\* before it builds the envelope, and either read throws a TypeError when the
\* object read from is undefined or null.
CatchBlock(error, context, env) ==
  IF PropertyReadThrows(context) \/ PropertyReadThrows(error)
    THEN [settled |-> "rejected",
          value |-> JsError("Cannot read properties of undefined", "")]
  ELSE [settled |-> "resolved", value |-> ErrorEnvelope(error, env)]

\* what the handlers of the model do: return a value, or throw one (a
\* rejected promise is a throw at the await)
Returns(v) == [kind |-> "return", v |-> v]
Throws(e) == [kind |-> "throw", v |-> e]

\* wrapToolHandler(handler)(params, context): how the returned promise settles
WrappedCall(handler, context, env) ==
  LET normalized == NormalizeResult(handler.v, env)
      ended ==
        IF handler.kind = "return"
          THEN IF normalized.raised
                 THEN CatchBlock(JsError("Converting circular structure to JSON", ""),
                                 context, env)
               ELSE [settled |-> "resolved", value |-> normalized.v]
        ELSE CatchBlock(handler.v, context, env)
  IN [valid |-> TRUE, handler |-> handler, context |-> context,
      passed |-> NormalizeContext(context),
      settled |-> ended.settled, value |-> ended.value]

NoToolCall ==
  [valid |-> FALSE, handler |-> Returns(JsUndefined), context |-> JsUndefined,
   passed |-> JsUndefined, settled |-> "none", value |-> JsUndefined]

\* the values the handlers of the model return
ImageItem == JsObj(<<Prop("type", JsStr("image")), Prop("data", JsStr("aGk=")),
                     Prop("mimeType", JsStr("image/png"))>>)
ReturnValues ==
  { JsNull, JsUndefined, JsStr("done"), JsStr(""), JsNum(42), JsNum(0),
    JsBool(TRUE), JsBigInt(7), JsFunction,
    JsError("upstream failed", ""),
    TextItem(JsStr("hello")), TextItem(JsNum(42)),
    JsObj(<<Prop("type", JsStr("text"))>>), ImageItem,
    JsObj(<<Prop("type", JsStr("audio")), Prop("data", JsStr("aGk="))>>),
    JsObj(<<Prop("content", JsArr(<<>>))>>),
    JsObj(<<Prop("content", JsArr(<<TextItem(JsStr("a")), ImageItem>>))>>),
    JsObj(<<Prop("content", JsArr(<<TextItem(JsStr("a")), JsStr("b")>>))>>),
    JsObj(<<Prop("content", JsArr(<<JsNull>>))>>),
    JsObj(<<Prop("content", JsArr(<<JsObj(<<Prop("type", JsStr("text"))>>)>>))>>),
    JsObj(<<Prop("content", JsArr(<<JsBigInt(7)>>))>>),
    JsObj(<<Prop("content", JsStr("plain"))>>),
    JsObj(<<Prop("value", JsStr("azure"))>>),
    JsObj(<<Prop("value", JsObj(<<Prop("id", JsNum(1))>>))>>),
    JsObj(<<Prop("value", JsFunction)>>),
    JsObj(<<Prop("id", JsNum(42)), Prop("name", JsStr("A")),
            Prop("steps", JsArr(<<JsNum(1), JsUndefined>>)),
            Prop("skip", JsUndefined)>>),
    JsObj(<<>>), JsArr(<<JsNum(1), JsStr("two")>>), JsCircular }

\* the values the handlers of the model throw or reject with
ThrownValues ==
  { JsError("boom", ""), JsError("Not found", "NOT_FOUND"), JsStr("oops"),
    JsUndefined }

Handlers == {Returns(v) : v \in ReturnValues} \cup {Throws(e) : e \in ThrownValues}

\* the context objects callers pass, or none
Contexts ==
  { JsUndefined, JsObj(<<>>),
    JsObj(<<Prop("log", JsObj(<<Prop("info", JsFunction), Prop("error", JsFunction)>>))>>),
    JsObj(<<Prop("log", JsObj(<<>>)), Prop("reportProgress", JsFunction)>>) }

\* a client invokes a wrapped tool
ToolCall(handler, context) ==
  /\ toolCalls < MaxCalls
  /\ toolCalls' = toolCalls + 1
  /\ toolCall' = WrappedCall(handler, context, nodeEnv)
  /\ UNCHANGED nodeEnv
  /\ UNCHANGED <<connVars, timerVars, initVars, logVars, registryVars, raceVars, apiVars, eventVars, serverVars>>

ToolNext == \E handler \in Handlers : \E context \in Contexts : ToolCall(handler, context)

(* -------------------------- diagnostic output ------------------------- *)

\* the methods of a context logger
LogLevels == {"debug", "info", "warn", "error"}

\* the logger normalizeContext substitutes: each level is the console method
\* of the same name
SubstituteLogger(level) == level

\* context.log is missing or falsy, so normalizeContext substitutes its own
LogIsSubstituted(context) ==
  ~Truthy(Get(JsObj(IF context.t = "object" THEN context.kids ELSE <<>>), "log"))

\* log[level](...) called by a handler on the context the wrapper hands it:
\* a write of the substituted logger goes to the console, a write through the
\* caller's logger goes to the client, and a missing method makes the call
\* throw before anything is written
ContextLogWrites(context, level) ==
  LET log == Get(NormalizeContext(context), "log")
  IN IF Get(log, level).t # "function" THEN {}
     ELSE IF LogIsSubstituted(context)
       THEN {ConsoleWrite("context", SubstituteLogger(level), "handler message")}
     ELSE {[source |-> "context", method |-> level, what |-> "handler message",
            stream |-> "client"]}

\* a wrapped handler logs through the context it was handed
HandlerLogs(context, level) ==
  /\ diagnostics' = ContextLogWrites(context, level)
  /\ UNCHANGED tokenCache
  /\ UNCHANGED <<connVars, timerVars, initVars, toolVars, registryVars, raceVars, apiVars, eventVars, serverVars>>

\* the console calls of one getAuthToken call
AuthTokenWrites(cached, granted) ==
  IF cached THEN {ConsoleWrite("api", "error", "Using cached token")}
  ELSE {ConsoleWrite("api", "error", "Getting new auth token"),
        ConsoleWrite("api", "error", "Token URL")}
       \cup (IF granted
               THEN {ConsoleWrite("api", "log", "Successfully obtained auth token")}
             ELSE {ConsoleWrite("api", "error", "Failed to get auth token")})

\* getAuthToken(): the cached token while it is held and not expired, else a
\* token request that is granted or refused
GetAuthToken(expired, granted) ==
  LET cached == tokenCache = "held" /\ ~expired
  IN /\ diagnostics' = AuthTokenWrites(cached, granted)
     /\ tokenCache' = IF ~cached /\ granted THEN "held" ELSE tokenCache
     /\ UNCHANGED <<connVars, timerVars, initVars, toolVars, registryVars, raceVars, apiVars, eventVars, serverVars>>

(* -------------------------- tool registration ------------------------ *)

\* what a tool author hands to addTool: a name, a parameters property (none,
\* a plain object, an object with parse only, or a validator with safeParse)
\* and an execute property (none, a bare handler, or wrapToolHandler(handler))
ToolNames == {"getWorkflows", "getWorkflowSteps"}
ParameterKinds == {"missing", "plain", "parse", "validator"}
ExecuteKinds == {"missing", "handler", "wrapped"}
ToolDef(name, parameters, execute) ==
  [isTool |-> TRUE, name |-> name, parameters |-> parameters,
   safeParse |-> IF parameters = "validator" THEN "own" ELSE "none",
   execute |-> execute, contained |-> FALSE]
\* addTool(null) or addTool(undefined)
NullTool ==
  [isTool |-> FALSE, name |-> "", parameters |-> "missing", safeParse |-> "none",
   execute |-> "missing", contained |-> FALSE]
ToolDefs ==
  {ToolDef(name, parameters, execute) :
     name \in ToolNames, parameters \in ParameterKinds, execute \in ExecuteKinds}
  \cup {NullTool}

\* a registration that leaves the tool as the author wrote it
EnhanceNothing(tool) == tool

\* the try block of the patched addTool: a parameters object without
\* safeParse gets an adapter, a missing one is replaced by the accept-all
\* default, and an execute function is wrapped in the containing function
EnhanceTool(tool) ==
  [tool EXCEPT
     !.safeParse = IF tool.parameters = "missing" THEN "acceptAll"
                   ELSE IF tool.safeParse = "none" THEN "adapter"
                   ELSE tool.safeParse,
     !.contained = (tool.execute # "missing")]

\* the addTool of the framework, which the patch keeps as originalAddTool:
\* it stores the tool or raises
OriginalOutcomes == {"stored", "raised"}
OriginalAddTool(registry, tool, outcome) ==
  IF outcome = "stored" THEN Append(registry, tool) ELSE registry

NoAdd ==
  [valid |-> FALSE, name |-> "", duplicate |-> FALSE, patched |-> FALSE,
   stored |-> FALSE, raised |-> FALSE, logged |-> FALSE]

HasName(registry, name) ==
  \E i \in 1..Len(registry) : registry[i].isTool /\ registry[i].name = name

\* mcp.addTool(tool) as patched: a falsy tool goes to the framework as it is;
\* otherwise the tool is enhanced in place and handed to the framework, and
\* when that raises the error is logged and the tool is handed over again
PatchedAddTool(registry, tool, o1, o2) ==
  LET enhanced == EnhanceTool(tool)
  IN IF ~tool.isTool
       THEN [registry |-> OriginalAddTool(registry, tool, o1),
             raised |-> o1 = "raised", logged |-> FALSE]
     ELSE IF o1 = "stored"
       THEN [registry |-> OriginalAddTool(registry, enhanced, o1),
             raised |-> FALSE, logged |-> FALSE]
     ELSE [registry |-> OriginalAddTool(registry, enhanced, o2),
           raised |-> o2 = "raised", logged |-> TRUE]

\* mcp.addTool(tool): the patched method once start() has installed it, the
\* framework's own before
AddTool(tool, o1, o2) ==
  LET done == IF addToolPatched THEN PatchedAddTool(mcpTools, tool, o1, o2)
              ELSE [registry |-> OriginalAddTool(mcpTools, tool, o1),
                    raised |-> o1 = "raised", logged |-> FALSE]
  IN /\ Len(mcpTools) < MaxTools
     /\ mcpTools' = done.registry
     /\ lastAdd' = [valid |-> TRUE, name |-> tool.name,
                    duplicate |-> tool.isTool /\ HasName(mcpTools, tool.name),
                    patched |-> addToolPatched,
                    stored |-> Len(done.registry) > Len(mcpTools),
                    raised |-> done.raised, logged |-> done.logged]
     /\ UNCHANGED <<addToolPatched, lastCall, lastParse>>
     /\ UNCHANGED <<connVars, timerVars, initVars, toolVars, logVars, raceVars, apiVars, eventVars, serverVars>>

\* mcp.start(options) as patched: it installs the patched addTool, announces
\* the start on the console and starts the framework
PatchedStart ==
  /\ addToolPatched' = TRUE
  /\ diagnostics' = {ConsoleWrite("start", "info", "Starting MCP server")}
  /\ UNCHANGED <<mcpTools, lastAdd, lastCall, lastParse, tokenCache>>
  /\ UNCHANGED <<connVars, timerVars, initVars, toolVars, raceVars, apiVars, eventVars, serverVars>>

\* tool.parameters.safeParse(args) of a registered tool, for arguments that
\* satisfy the tool's schema or do not: "ok", "notOk", or "raises" when the
\* parameters have no safeParse
SafeParse(tool, argsOk) ==
  CASE tool.safeParse = "none" -> "raises"
    [] tool.safeParse = "acceptAll" -> "ok"
    [] tool.safeParse = "adapter" ->
         IF tool.parameters = "parse" /\ ~argsOk THEN "notOk" ELSE "ok"
    [] OTHER -> IF argsOk THEN "ok" ELSE "notOk"

\* the context the containing function passes on when it was given none
FallbackContext ==
  JsObj(<<Prop("log", JsObj(<<Prop("info", JsFunction), Prop("error", JsFunction),
                               Prop("debug", JsFunction),
                               Prop("warn", JsFunction)>>))>>)

\* the response of the containing function for a caught error
ContainedEnvelope(error, env) ==
  TextItem(JsonStringify(
    JsObj(<<Prop("error", Get(error, "message")),
            Prop("details", IF env = "development" THEN Get(error, "stack")
                            ELSE JsNull)>>),
    "").v)

\* tool.execute(args, context) of a registered tool: the author's execute,
\* inside the containing function when the patched addTool registered it
ExecuteTool(tool, handler, context, env) ==
  LET passed == IF tool.contained /\ ~Truthy(context) THEN FallbackContext
                ELSE context
      wrapped == WrappedCall(handler, passed, env)
      inner == IF tool.execute = "wrapped"
                 THEN [settled |-> wrapped.settled, value |-> wrapped.value]
               ELSE IF handler.kind = "return"
                 THEN [settled |-> "resolved", value |-> handler.v]
               ELSE [settled |-> "rejected", value |-> handler.v]
  IN IF tool.execute = "missing"
       THEN [handlerRan |-> FALSE, settled |-> "rejected",
             value |-> JsError("tool.execute is not a function", "")]
     ELSE IF tool.contained /\ inner.settled = "rejected"
       THEN IF PropertyReadThrows(inner.value)
              THEN [handlerRan |-> TRUE, settled |-> "rejected",
                    value |-> JsError("Cannot read properties of undefined", "")]
            ELSE [handlerRan |-> TRUE, settled |-> "resolved",
                  value |-> ContainedEnvelope(inner.value, env)]
     ELSE [handlerRan |-> TRUE, settled |-> inner.settled, value |-> inner.value]

NoCall ==
  [valid |-> FALSE, tool |-> NullTool, argsOk |-> TRUE, handlerRan |-> FALSE,
   settled |-> "none", value |-> JsUndefined]

\* what the handler of a called tool does, and the context of the call
CallHandlers == {Returns(JsStr("done")), Throws(JsError("boom", ""))}
CallContexts == {JsUndefined, JsObj(<<>>)}

\* a registered tool is executed with arguments that satisfy its schema or
\* do not
CallTool(i, argsOk, handler, context) ==
  LET done == ExecuteTool(mcpTools[i], handler, context, nodeEnv)
  IN /\ i \in 1..Len(mcpTools)
     /\ mcpTools[i].isTool
     /\ lastCall' = [valid |-> TRUE, tool |-> mcpTools[i], argsOk |-> argsOk,
                     handlerRan |-> done.handlerRan, settled |-> done.settled,
                     value |-> done.value]
     /\ UNCHANGED <<addToolPatched, mcpTools, lastAdd, lastParse>>
     /\ UNCHANGED <<connVars, timerVars, initVars, toolVars, logVars, raceVars, apiVars, eventVars, serverVars>>

RegistryNext ==
  \/ \E tool \in ToolDefs : \E o1 \in OriginalOutcomes : \E o2 \in OriginalOutcomes :
       AddTool(tool, o1, o2)
  \/ PatchedStart
  \/ \E i \in 1..MaxTools : \E argsOk \in BOOLEAN :
       \E handler \in CallHandlers : \E context \in CallContexts :
         CallTool(i, argsOk, handler, context)

(* ------------------- createToolParameters / schemas ------------------- *)

\* an optional number of a schema description
Absent == [def |-> FALSE, v |-> 0]
Given(n) == [def |-> TRUE, v |-> n]

\* A schema description: its type tag ("" when it has none), whether it has
\* a $ref, the string constraints, and for an object its properties, the
\* required keys and additionalProperties ("true", "false" or "absent").
Leaf(type, ref, minLength, maxLength, pattern, format) ==
  [type |-> type, ref |-> ref, minLength |-> minLength, maxLength |-> maxLength,
   pattern |-> pattern, format |-> format, properties |-> <<>>,
   required |-> {}, additionalProperties |-> "absent"]
TypeOnly(type) == Leaf(type, FALSE, Absent, Absent, "", "")
ObjectSchema(properties, required, additionalProperties) ==
  [type |-> "object", ref |-> FALSE, minLength |-> Absent, maxLength |-> Absent,
   pattern |-> "", format |-> "", properties |-> properties,
   required |-> required, additionalProperties |-> additionalProperties]

\* A validator of the schema library: z.any(), z.string() with its checks,
\* z.number(), z.boolean(), z.null(), z.object(shape) with its policy for
\* keys the shape does not name, each possibly .optional().
Validator(kind, min, max, regex, format) ==
  [kind |-> kind, min |-> min, max |-> max, regex |-> regex, format |-> format,
   optional |-> FALSE, shape |-> <<>>, unknownKeys |-> "strip"]
ZAny == Validator("any", Absent, Absent, "", "")
ZString == Validator("string", Absent, Absent, "", "")
ZNumber == Validator("number", Absent, Absent, "", "")
ZBoolean == Validator("boolean", Absent, Absent, "", "")
ZNull == Validator("null", Absent, Absent, "", "")
ZObject(shape) == [ZAny EXCEPT !.kind = "object", !.shape = shape]
Optional(validator) == [validator EXCEPT !.optional = TRUE]

\* new RegExp(pattern) throws a SyntaxError
InvalidPattern(pattern) == pattern = "("

\* switch (jsonSchema.format): a known format replaces the schema built so
\* far by z.string() with the format check alone
StringWithFormat(checked, format) ==
  CASE format = "email" -> Validator("string", Absent, Absent, "", "email")
    [] format \in {"uri", "url"} -> Validator("string", Absent, Absent, "", "url")
    [] format \in {"date-time", "date"} ->
         Validator("string", Absent, Absent, "", "date-time")
    [] OTHER -> checked

\* the outcome of a conversion step: a validator, or an exception
Built(validator) == [threw |-> FALSE, v |-> validator]
Thrown == [threw |-> TRUE, v |-> ZAny]

\* the try block of case 'string': min, max and regex are applied, then the
\* format; new RegExp throws on an invalid pattern
StringValidations(jsonSchema) ==
  LET checked == Validator("string", jsonSchema.minLength, jsonSchema.maxLength,
                           jsonSchema.pattern, "")
  IN IF jsonSchema.pattern # "" /\ InvalidPattern(jsonSchema.pattern) THEN Thrown
     ELSE IF jsonSchema.format # ""
       THEN Built(StringWithFormat(checked, jsonSchema.format))
     ELSE Built(checked)

\* case 'string': catch (error) { stringSchema = z.string() }
ConvertString(jsonSchema) ==
  LET body == StringValidations(jsonSchema)
  IN IF body.threw THEN Built(ZString) ELSE body

\* an unsupported type tag read as a type no value has
UnsupportedTypeRejects == ZNull

\* default: return z.any()
UnsupportedType == ZAny

\* convertToZodSchema for a description without properties
ConvertLeaf(jsonSchema) ==
  IF jsonSchema.ref THEN Built(ZAny)
  ELSE CASE jsonSchema.type = "string" -> ConvertString(jsonSchema)
         [] jsonSchema.type \in {"number", "integer"} -> Built(ZNumber)
         [] jsonSchema.type = "boolean" -> Built(ZBoolean)
         [] jsonSchema.type = "null" -> Built(ZNull)
         [] jsonSchema.type = "object" -> Built(ZObject(<<>>))
         [] OTHER -> Built(UnsupportedType)

\* z.object(shape), with .passthrough() when additionalProperties === true
UnknownKeys(additionalProperties) ==
  IF additionalProperties = "true" THEN "passthrough" ELSE "strip"

\* one property of case 'object': required as converted, else .optional();
\* an exception makes it z.any().optional()
ConvertProperty(propSchema, required) ==
  LET prop == ConvertLeaf(propSchema)
  IN IF prop.threw THEN Optional(ZAny)
     ELSE IF required THEN prop.v
     ELSE Optional(prop.v)

\* convertToZodSchema(jsonSchema)
ConvertToZodSchema(jsonSchema) ==
  IF jsonSchema.ref \/ jsonSchema.type # "object" THEN ConvertLeaf(jsonSchema)
  ELSE Built([ZObject([i \in 1..Len(jsonSchema.properties) |->
                   [k |-> jsonSchema.properties[i].k,
                    v |-> ConvertProperty(jsonSchema.properties[i].v,
                            jsonSchema.properties[i].k \in jsonSchema.required)]])
          EXCEPT !.unknownKeys = UnknownKeys(jsonSchema.additionalProperties)])

\* createPassthroughSchema: z.any() whose safeParse accepts everything
PassthroughSchema == ZAny

\* createToolParameters(schema): the converted schema, whose safeParse is the
\* library's own, or the passthrough schema when the conversion threw
CreateToolParameters(schema) ==
  LET converted == ConvertToZodSchema(schema)
  IN IF converted.threw THEN PassthroughSchema ELSE converted.v

\* the strings of the model: length, and what the pattern ^a and the formats
\* make of them
Strings ==
  {"", "ab", "abcd", "abcdefgh", "a@b.co", "http://a.b", "2024-01-01T00:00:00Z"}
StrLen(str) ==
  CASE str = "" -> 0 [] str = "ab" -> 2 [] str = "abcd" -> 4
    [] str = "abcdefgh" -> 8 [] str = "a@b.co" -> 6 [] str = "http://a.b" -> 10
    [] OTHER -> 20
MatchesPattern(str, pattern) ==
  pattern = "^a" => str \in {"ab", "abcd", "abcdefgh", "a@b.co"}
MatchesFormat(str, format) ==
  CASE format = "email" -> str = "a@b.co"
    [] format = "url" -> str = "http://a.b"
    [] format = "date-time" -> str = "2024-01-01T00:00:00Z"
    [] OTHER -> TRUE

\* the validator accepts a value that is not an object with a shape
AcceptsLeaf(validator, value) ==
  IF value.t = "undefined" /\ validator.optional THEN TRUE
  ELSE CASE validator.kind = "any" -> TRUE
         [] validator.kind = "string" ->
              /\ value.t = "string"
              /\ validator.min.def => StrLen(value.s) >= validator.min.v
              /\ validator.max.def => StrLen(value.s) <= validator.max.v
              /\ validator.regex # "" => MatchesPattern(value.s, validator.regex)
              /\ MatchesFormat(value.s, validator.format)
         [] validator.kind = "number" -> value.t = "number"
         [] validator.kind = "boolean" -> value.t = "boolean"
         [] validator.kind = "null" -> value.t = "null"
         [] OTHER -> value.t = "object"

Declares(validator, key) ==
  \E i \in 1..Len(validator.shape) : validator.shape[i].k = key

\* validator.safeParse(value).success
Accepts(validator, value) ==
  IF validator.kind # "object" THEN AcceptsLeaf(validator, value)
  ELSE IF value.t = "undefined" /\ validator.optional THEN TRUE
  ELSE /\ value.t = "object"
       /\ \A i \in 1..Len(validator.shape) :
            AcceptsLeaf(validator.shape[i].v, Get(value, validator.shape[i].k))
       /\ validator.unknownKeys = "strict" =>
            \A i \in 1..Len(value.kids) : Declares(validator, value.kids[i].k)

\* the schema descriptions handed to createToolParameters
StringSchemas ==
  {Leaf("string", FALSE, minLength, maxLength, pattern, format) :
     minLength \in {Absent, Given(3)}, maxLength \in {Absent, Given(5)},
     pattern \in {"", "^a", "("},
     format \in {"", "email", "url", "date-time", "hostname"}}
SchemaProperties ==
  <<Prop("id", TypeOnly("number")), Prop("name", TypeOnly("string"))>>
ObjectSchemas ==
  {ObjectSchema(SchemaProperties, required, additionalProperties) :
     required \in SUBSET {"id", "name"},
     additionalProperties \in {"true", "false", "absent"}}
MalformedSchemas ==
  {TypeOnly("bogus"), TypeOnly(""),
   Leaf("string", TRUE, Given(3), Absent, "", ""),
   Leaf("", TRUE, Absent, Absent, "", "")}
Schemas ==
  StringSchemas \cup ObjectSchemas \cup MalformedSchemas
  \cup {TypeOnly("number"), TypeOnly("boolean"), TypeOnly("null")}

\* the values handed to safeParse
ParsedValues ==
  {JsStr(str) : str \in Strings}
  \cup {JsUndefined, JsNull, JsNum(1), JsBool(TRUE), JsArr(<<>>), JsObj(<<>>),
        JsObj(<<Prop("id", JsNum(1))>>),
        JsObj(<<Prop("name", JsStr("ab"))>>),
        JsObj(<<Prop("id", JsNum(1)), Prop("name", JsStr("ab"))>>),
        JsObj(<<Prop("id", JsStr("ab")), Prop("name", JsStr("ab"))>>),
        JsObj(<<Prop("id", JsNum(1)), Prop("name", JsStr("ab")),
                Prop("extra", JsNum(1))>>),
        JsObj(<<Prop("extra", JsNum(1))>>)}

NoParse == [valid |-> FALSE, schema |-> TypeOnly(""), value |-> JsUndefined,
            created |-> "none", result |-> "none"]

\* createToolParameters(schema).safeParse(value)
ParseWithSchema(schema, value) ==
  /\ lastParse' = [valid |-> TRUE, schema |-> schema, value |-> value,
                   created |-> "returned",
                   result |-> IF Accepts(CreateToolParameters(schema), value)
                              THEN "ok" ELSE "notOk"]
  /\ UNCHANGED <<addToolPatched, mcpTools, lastAdd, lastCall>>
  /\ UNCHANGED <<connVars, timerVars, initVars, toolVars, logVars, raceVars, apiVars, eventVars, serverVars>>

SchemaNext ==
  \E schema \in Schemas : \E value \in ParsedValues : ParseWithSchema(schema, value)

(* ----------------------------- withTimeout ---------------------------- *)

\* One withTimeout(promise, ms) call: the promise raced, the timer set by
\* createTimeoutPromise (whose callback runs once ms have elapsed), which of
\* the two came first, how the returned promise settled and how many times a
\* settlement reached the caller.
NoRace ==
  [called |-> FALSE, promise |-> "pending", timer |-> "unset", first |-> "none",
   outcome |-> "pending", deliveries |-> 0]

\* a race whose later entrant settles the returned promise again
SettleAgain(race, with) ==
  [race EXCEPT !.outcome = with, !.deliveries = @ + 1]

\* Promise.race: the first of the two promises to settle settles the returned
\* promise; a promise that is settled stays as it is
Settle(race, with) ==
  IF race.outcome = "pending"
    THEN [race EXCEPT !.outcome = with, !.deliveries = @ + 1]
  ELSE race

First(race, who) == IF race.first = "none" THEN who ELSE race.first

\* withTimeout(promise, ms) is called with a pending promise
WithTimeout(i) ==
  /\ ~races[i].called
  /\ races' = [races EXCEPT ![i] = [NoRace EXCEPT !.called = TRUE,
                                                  !.timer = "pending"]]
  /\ UNCHANGED retry
  /\ UNCHANGED <<connVars, timerVars, initVars, toolVars, logVars, registryVars,
                 apiVars, eventVars, serverVars>>

\* the raced promise fulfils or rejects
PromiseSettles(i, how) ==
  /\ races[i].called
  /\ races[i].promise = "pending"
  /\ races' = [races EXCEPT ![i] =
                 Settle([races[i] EXCEPT !.promise = how,
                                         !.first = First(races[i], "promise")],
                        how)]
  /\ UNCHANGED retry
  /\ UNCHANGED <<connVars, timerVars, initVars, toolVars, logVars, registryVars,
                 apiVars, eventVars, serverVars>>

\* ms have elapsed: the callback of createTimeoutPromise rejects with the
\* timeout error
TimeoutFires(i) ==
  /\ races[i].timer = "pending"
  /\ races' = [races EXCEPT ![i] =
                 Settle([races[i] EXCEPT !.timer = "fired",
                                         !.first = First(races[i], "timer")],
                        "timeout")]
  /\ UNCHANGED retry
  /\ UNCHANGED <<connVars, timerVars, initVars, toolVars, logVars, registryVars,
                 apiVars, eventVars, serverVars>>

RaceNext ==
  \E i \in 1..MaxRaces :
    \/ WithTimeout(i)
    \/ \E how \in {"fulfilled", "rejected"} : PromiseSettles(i, how)
    \/ TimeoutFires(i)

(* ------------------------------ withRetry ----------------------------- *)

\* the defaults of the options of withRetry
RETRY_INITIAL_DELAY == 1000
RETRY_MAX_DELAY == 10000

\* an error fn rejects with: its code ("" when it has none) and its status
\* (0 when it has none)
RetryError(code, status) == [code |-> code, status |-> status]
RetryErrors ==
  {RetryError("ECONNRESET", 0), RetryError("", 503), RetryError("EINVAL", 400),
   RetryError("", 0)}

\* retryableErrors: the codes and the statuses the caller lists
AllowList(codes, statuses) == [codes |-> codes, statuses |-> statuses]
AllowLists ==
  {AllowList({}, {}), AllowList({"ECONNRESET"}, {}), AllowList({}, {503}),
   AllowList({"ECONNRESET"}, {503})}

\* retryableErrors.includes(error.code) || retryableErrors.includes(error.status)
InAllowList(error, list) ==
  \/ error.code # "" /\ error.code \in list.codes
  \/ error.status # 0 /\ error.status \in list.statuses

\* shouldRetry: an empty list makes every error retryable
ShouldRetry(error, list) ==
  \/ list.codes = {} /\ list.statuses = {}
  \/ InAllowList(error, list)

\* delay = Math.min(delay * backoffFactor, maxDelay), the delay held in halves
\* of a millisecond
RetryNextDelay(delayHalfMs) ==
  IF (delayHalfMs * 3) \div 2 <= 2 * RETRY_MAX_DELAY
    THEN (delayHalfMs * 3) \div 2
  ELSE 2 * RETRY_MAX_DELAY

NoRetryError == RetryError("", 0)
NoRetry ==
  [phase |-> "idle", list |-> AllowList({}, {}), maxRetries |-> 0, attempt |-> 0,
   delayHalfMs |-> 0, lastError |-> NoRetryError, calls |-> 0,
   recalled |-> FALSE, recalledAfter |-> NoRetryError, outcome |-> "none"]

\* withRetry(fn, {maxRetries, retryableErrors}) is called and calls fn
WithRetry(list, maxRetries) ==
  /\ retry.phase \in {"idle", "done"}
  /\ retry' = [NoRetry EXCEPT !.phase = "calling", !.list = list,
                              !.maxRetries = maxRetries,
                              !.delayHalfMs = 2 * RETRY_INITIAL_DELAY,
                              !.calls = 1]
  /\ UNCHANGED races
  /\ UNCHANGED <<connVars, timerVars, initVars, toolVars, logVars, registryVars,
                 apiVars, eventVars, serverVars>>

\* fn fulfils: withRetry returns its value
FnFulfils ==
  /\ retry.phase = "calling"
  /\ retry' = [retry EXCEPT !.phase = "done", !.outcome = "fulfilled"]
  /\ UNCHANGED races
  /\ UNCHANGED <<connVars, timerVars, initVars, toolVars, logVars, registryVars,
                 apiVars, eventVars, serverVars>>

\* fn rejects: the loop breaks and the error is thrown, or the delay is awaited
FnRejects(error) ==
  /\ retry.phase = "calling"
  /\ retry' = IF ~ShouldRetry(error, retry.list) \/ retry.attempt >= retry.maxRetries
                THEN [retry EXCEPT !.phase = "done", !.lastError = error,
                                   !.outcome = "thrown"]
              ELSE [retry EXCEPT !.phase = "waiting", !.lastError = error]
  /\ UNCHANGED races
  /\ UNCHANGED <<connVars, timerVars, initVars, toolVars, logVars, registryVars,
                 apiVars, eventVars, serverVars>>

\* the delay has passed: it grows, and the next attempt calls fn again
DelayElapses ==
  /\ retry.phase = "waiting"
  /\ retry' = [retry EXCEPT !.phase = "calling", !.attempt = @ + 1,
                            !.delayHalfMs = RetryNextDelay(@), !.calls = @ + 1,
                            !.recalled = TRUE, !.recalledAfter = retry.lastError]
  /\ UNCHANGED races
  /\ UNCHANGED <<connVars, timerVars, initVars, toolVars, logVars, registryVars,
                 apiVars, eventVars, serverVars>>

RetryNext ==
  \/ \E list \in AllowLists : \E maxRetries \in 0..MaxRetryOption :
       WithRetry(list, maxRetries)
  \/ FnFulfils
  \/ \E error \in RetryErrors : FnRejects(error)
  \/ DelayElapses

(* ------------------------ upstream API clients ------------------------ *)

\* The three HTTP clients of the repository, each with its one-slot token
\* cache: createAuthenticatedClient (api.ts), HaloPSAClient (api/client.js)
\* and apiClient with its interceptors (the direct implementation).
API_TS == "createAuthenticatedClient"
CLIENT_JS == "HaloPSAClient"
DIRECT == "apiClient"
ApiClients == {API_TS, CLIENT_JS, DIRECT}

\* settings.retryAttempts of the direct implementation
RETRY_ATTEMPTS == 3

\* the answers of the upstream
OK == 200
UNAUTHORIZED == 401
UNAVAILABLE == 503
Statuses == {OK, UNAUTHORIZED, UNAVAILABLE}

NoRequest ==
  [phase |-> "idle", impl |-> "", token |-> 0, rejected |-> 0,
   retry |-> FALSE, retries |-> 0, retryCount |-> 0, outcome |-> "none"]

\* tokenCache.accessToken && tokenCache.expiresAt > Date.now()
CacheHit(cached, expired) == cached # 0 /\ ~expired

\* getToken() / getAuthToken() at the start of a send: the cached token, or a
\* token request to the upstream
Acquire(request, impl, expired) ==
  IF CacheHit(tokenCaches[impl], expired)
    THEN [request EXCEPT !.phase = "sent", !.impl = impl,
                         !.token = tokenCaches[impl]]
  ELSE [request EXCEPT !.phase = "acquiring", !.impl = impl]

\* a caller sends a request through one of the clients
SendRequest(i, impl, expired) ==
  /\ apiRequests[i].phase = "idle"
  /\ apiRequests' = [apiRequests EXCEPT ![i] = Acquire(apiRequests[i], impl, expired)]
  /\ UNCHANGED <<tokenCaches, issued, rejectedTokens>>
  /\ UNCHANGED <<connVars, timerVars, initVars, toolVars, logVars, registryVars,
                 raceVars, eventVars, serverVars>>

\* the upstream grants the token asked for: it is cached (the last writer
\* wins) and the request is sent with it
TokenGranted(i) ==
  LET request == apiRequests[i]
      fresh == issued + 1
  IN /\ request.phase = "acquiring"
     /\ issued < MaxTokens
     /\ issued' = fresh
     /\ tokenCaches' = [tokenCaches EXCEPT ![request.impl] = fresh]
     /\ apiRequests' = [apiRequests EXCEPT ![i] =
                          [request EXCEPT !.phase = "sent", !.token = fresh]]
     /\ UNCHANGED rejectedTokens
     /\ UNCHANGED <<connVars, timerVars, initVars, toolVars, logVars, registryVars,
                    raceVars, eventVars, serverVars>>

\* the upstream refuses the token asked for: the request fails
TokenRefused(i) ==
  /\ apiRequests[i].phase = "acquiring"
  /\ apiRequests' = [apiRequests EXCEPT ![i] =
                       [@ EXCEPT !.phase = "done", !.outcome = "authFailed"]]
  /\ UNCHANGED <<tokenCaches, issued, rejectedTokens>>
  /\ UNCHANGED <<connVars, timerVars, initVars, toolVars, logVars, registryVars,
                 raceVars, eventVars, serverVars>>

\* error.response.status === 401 && tokenCache.accessToken, for a request
\* that was not retried yet
ShouldRefresh(request, cached) == ~request.retry /\ cached # 0

\* What a client does with the answer to a request: the request as it is
\* afterwards (rejected is the token its first 401 answered), and the
\* client's cache.
\*  - createAuthenticatedClient: validateStatus accepts every status below
\*    500, so a 401 is a response handed to the caller and the 401 branch of
\*    the error interceptor is not reached; a 503 is rejected.
\*  - HaloPSAClient.request: every error is logged and rethrown.
\*  - apiClient: a first 401 with a token in the cache empties the cache, marks
\*    the request retried and asks for a token; a 503 is retried after a
\*    backoff while _retryCount is below retryAttempts.
Answer(request, status, cached) ==
  LET done(outcome) == [request EXCEPT !.phase = "done", !.outcome = outcome]
      seen == [request EXCEPT !.rejected =
                 IF status = UNAUTHORIZED /\ @ = 0 THEN request.token ELSE @]
      doneSeen(outcome) == [seen EXCEPT !.phase = "done", !.outcome = outcome]
  IN CASE status = OK -> [request |-> done("response"), cached |-> cached]
       [] request.impl = API_TS ->
            [request |-> IF status = UNAUTHORIZED THEN doneSeen("response401")
                         ELSE done("rejected"),
             cached |-> cached]
       [] request.impl = CLIENT_JS ->
            [request |-> doneSeen("rejected"), cached |-> cached]
       [] OTHER ->
            IF status = UNAUTHORIZED /\ ShouldRefresh(request, cached)
              THEN [request |-> [seen EXCEPT !.phase = "acquiring", !.retry = TRUE,
                                             !.retries = @ + 1],
                    cached |-> 0]
            ELSE IF status = UNAVAILABLE /\ ~request.retry
                    /\ request.retryCount < RETRY_ATTEMPTS
              THEN [request |-> [request EXCEPT !.phase = "backoff",
                                                !.retryCount = @ + 1],
                    cached |-> cached]
            ELSE [request |-> doneSeen("rejected"), cached |-> cached]

\* the upstream answers a request that was sent
Respond(i, status) ==
  LET request == apiRequests[i]
      answered == Answer(request, status, tokenCaches[request.impl])
  IN /\ request.phase = "sent"
     /\ apiRequests' = [apiRequests EXCEPT ![i] = answered.request]
     /\ tokenCaches' = [tokenCaches EXCEPT ![request.impl] = answered.cached]
     /\ rejectedTokens' =
          IF status = UNAUTHORIZED
            THEN [rejectedTokens EXCEPT ![request.impl] = @ \cup {request.token}]
          ELSE rejectedTokens
     /\ UNCHANGED issued
     /\ UNCHANGED <<connVars, timerVars, initVars, toolVars, logVars, registryVars,
                    raceVars, eventVars, serverVars>>

\* the backoff of apiClient has passed: the request goes through the request
\* interceptor again
BackoffOver(i, expired) ==
  /\ apiRequests[i].phase = "backoff"
  /\ apiRequests' = [apiRequests EXCEPT ![i] =
                       Acquire(apiRequests[i], apiRequests[i].impl, expired)]
  /\ UNCHANGED <<tokenCaches, issued, rejectedTokens>>
  /\ UNCHANGED <<connVars, timerVars, initVars, toolVars, logVars, registryVars,
                 raceVars, eventVars, serverVars>>

ApiNext ==
  \E i \in 1..MaxRequests :
    \/ \E impl \in ApiClients : \E expired \in BOOLEAN : SendRequest(i, impl, expired)
    \/ TokenGranted(i)
    \/ TokenRefused(i)
    \/ \E status \in Statuses : Respond(i, status)
    \/ \E expired \in BOOLEAN : BackoffOver(i, expired)

LogNext ==
  \/ InitializeNext
  \/ PatchedStart
  \/ \E context \in Contexts : \E level \in LogLevels : HandlerLogs(context, level)
  \/ \E expired \in BOOLEAN : \E granted \in BOOLEAN : GetAuthToken(expired, granted)

(* ------------------------- server bootstrap --------------------------- *)
(* Three entry programs of the repository start a server over the stdio    *)
(* transport: index.ts (error handling, connection tracking, startServer,  *)
(* graceful shutdown), server/index.js (MCPServer) and halopsa-mcp.js.     *)

INDEX_TS == "index.ts"
SERVER_INDEX_JS == "server/index.js"
HALOPSA_MCP_JS == "halopsa-mcp.js"
Entries == {INDEX_TS, SERVER_INDEX_JS, HALOPSA_MCP_JS}

\* process.env.NODE_ENV
Postures == {"production", "development"}

\* Date.now() when the process boots: a positive number of milliseconds
BootTime == 1000
\* the step by which the model lets the clock advance: half a throttle window
ClockStep == 2500

\* the width of the logging throttle window, in milliseconds
THROTTLE_MS == 5000
\* the reserved timeout error code
TIMEOUT_CODE == -32001

\* an undefined global / a global holding a number
NoTime == [def |-> FALSE, v |-> 0]
SomeTime(t) == [def |-> TRUE, v |-> t]

\* an Error object: code, message (a sequence of words), context.error.code
\* (0 when there is none)
ErrorObject(code, message, contextCode) ==
  [code |-> code, message |-> message, contextCode |-> contextCode]

\* the errors that reach handleError or fail a start
Errors ==
  {ErrorObject("EPIPE", <<"write", "EPIPE">>, 0),
   ErrorObject("ECONNRESET", <<"read", "ECONNRESET">>, 0),
   ErrorObject("ECONNABORTED", <<"timeout", "ECONNABORTED">>, 0),
   ErrorObject("", <<"socket", "timeout">>, 0),
   ErrorObject("", <<"MCP error -32001">>, 0),
   ErrorObject("", <<"Request timed out">>, 0),
   ErrorObject("", <<"failed">>, TIMEOUT_CODE),
   ErrorObject("", <<"boom">>, 0),
   ErrorObject("ENOENT", <<"no", "such", "file">>, 0),
   ErrorObject("ETIMEDOUT", <<"connect", "ETIMEDOUT">>, 0)}

\* error.code === 'EPIPE' || error.code === 'ECONNRESET' || error.code === 'ECONNABORTED'
IsConnectionError(error) == error.code \in {"EPIPE", "ECONNRESET", "ECONNABORTED"}

\* error.message?.includes('timeout') || error.context?.error?.code === -32001
\* || error.message?.includes('MCP error -32001')
\* || error.message?.includes('Request timed out')
IsTimeoutError(error) ==
  \/ Includes(error.message, "timeout")
  \/ error.contextCode = TIMEOUT_CODE
  \/ Includes(error.message, "MCP error -32001")
  \/ Includes(error.message, "Request timed out")

\* the class handleError puts an error in: its branches in their order
ErrorClass(error) ==
  IF IsConnectionError(error) THEN "connection"
  ELSE IF IsTimeoutError(error) THEN "timeout"
  ELSE "other"

\* !global.lastEpipeErrorTime || now - global.lastEpipeErrorTime > 5000
ShouldLog(last, t) == ~last.def \/ last.v = 0 \/ t - last.v > THROTTLE_MS

\* The part of the state the tracker, the registry and their callbacks
\* work on, as one value the calls of a handler are applied to in sequence.
World ==
  [isConnected |-> isConnected, lastConnected |-> lastConnected,
   timers |-> timers, pending |-> pending,
   disconnectionCount |-> disconnectionCount, swept |-> FALSE]

\* a clearAll that leaves the registry and its timers as they are
WorldClearNone(w) == w

\* timerManager.clearAll()
WorldClearAll(w) ==
  [w EXCEPT !.pending = @ \ {w.timers[id] : id \in DOMAIN w.timers},
            !.timers = <<>>,
            !.swept = TRUE]

\* the callbacks index.ts subscribes: the disconnect callback counts the
\* disconnection and clears the registry (its branch for a count above 3 is
\* never entered: every reconnect edge resets the count, see
\* DisconnectionCountAtMostOne); the reconnect callback resets the count
ServerCallback(w, cb) ==
  IF cb = "onDisconnectCleanup"
  THEN WorldClearAll([w EXCEPT !.disconnectionCount = @ + 1])
  ELSE IF cb = "onReconnectReset"
  THEN [w EXCEPT !.disconnectionCount = 0]
  ELSE w

RECURSIVE WorldRunCallbacks(_, _)
\* callbacks.forEach(callback => { try { callback() } catch { log } })
WorldRunCallbacks(w, cbs) ==
  IF cbs = <<>> THEN w
  ELSE WorldRunCallbacks(ServerCallback(w, Head(cbs)), Tail(cbs))

\* connectionState.setConnected(connected)
WorldSetConnected(w, connected) ==
  IF StateChanges(w.isConnected, connected)
  THEN WorldRunCallbacks(
         [w EXCEPT !.isConnected = connected,
                   !.lastConnected = IF connected THEN now ELSE @],
         IF connected THEN reconnectCallbacks ELSE disconnectCallbacks)
  ELSE w

\* the state after the calls of a handler
Apply(w) ==
  /\ isConnected' = w.isConnected
  /\ lastConnected' = w.lastConnected
  /\ timers' = w.timers
  /\ pending' = w.pending
  /\ disconnectionCount' = w.disconnectionCount
  /\ lastSweep' = IF w.swept
                  THEN [valid |-> TRUE, scheduled |-> DOMAIN handles,
                        count |-> Cardinality(DOMAIN w.timers)]
                  ELSE lastSweep

Running == exit = "running"

\* the entry program has run to its last statement, which starts the server:
\* the event loop dispatches no event before that
Booted == start.phase # "boot"

\* process.exit(1) of the branch for other errors
ExitsOnUnhandledAlways(posture) == TRUE

\* if (process.env.NODE_ENV === 'development') { ...; process.exit(1) }
ExitsOnUnhandled(posture) == posture = "development"

NoHandled ==
  [valid |-> FALSE, code |-> "", class |-> "none",
   logged |-> FALSE, tooSoon |-> FALSE, startedSince |-> FALSE,
   postConnected |-> TRUE, postCount |-> 0, unchanged |-> TRUE,
   exit |-> "running"]

NoEpipeLog == [last |-> NoTime, startedSince |-> FALSE]

\* handleError(error), as registered for 'uncaughtException' and
\* 'unhandledRejection' by index.ts
HandleError(error) ==
  /\ entry = INDEX_TS
  /\ Running
  /\ Booted
  /\ LET class == ErrorClass(error)
         last == IF class = "connection" THEN lastEpipeErrorTime
                 ELSE lastTimeoutErrorTime
         log == class # "other" /\ ShouldLog(last, now)
         w == IF class = "other" THEN World
              ELSE WorldClearAll(WorldSetConnected(World, FALSE))
     IN /\ Apply(w)
        /\ lastEpipeErrorTime' =
             IF class = "connection" /\ log THEN SomeTime(now)
             ELSE lastEpipeErrorTime
        /\ lastTimeoutErrorTime' =
             IF class = "timeout" /\ log THEN SomeTime(now)
             ELSE lastTimeoutErrorTime
        /\ exit' = IF class = "other" /\ ExitsOnUnhandled(nodeEnv)
                   THEN "exit1" ELSE exit
        /\ epipeLog' = IF class = "connection" /\ log
                       THEN [last |-> SomeTime(now), startedSince |-> FALSE]
                       ELSE epipeLog
        /\ lastHandled' =
             [valid |-> TRUE, code |-> error.code, class |-> class,
              logged |-> log,
              tooSoon |-> epipeLog.last.def
                          /\ now - epipeLog.last.v <= THROTTLE_MS,
              startedSince |-> epipeLog.startedSince,
              postConnected |-> w.isConnected,
              postCount |-> Cardinality(DOMAIN w.timers),
              unchanged |-> /\ w.isConnected = isConnected
                            /\ w.lastConnected = lastConnected
                            /\ w.timers = timers
                            /\ w.pending = pending,
              exit |-> exit']
  /\ UNCHANGED <<now, disconnectCallbacks, reconnectCallbacks, lastOp, prevOp,
                 handles, lastFire>>
  /\ UNCHANGED <<entry, start, restartIntervals, credential, transport,
                 lastStartFailure, shutdown>>
  /\ UNCHANGED <<initVars, toolVars, logVars, registryVars, raceVars, apiVars, eventVars>>

\* server.on('ping', ...): a ping of the client reconnects the tracker
Ping ==
  /\ entry = INDEX_TS
  /\ Running
  /\ Booted
  /\ Apply(IF ~isConnected THEN WorldSetConnected(World, TRUE) ELSE World)
  /\ UNCHANGED <<now, disconnectCallbacks, reconnectCallbacks, lastOp, prevOp,
                 handles, lastFire>>
  /\ UNCHANGED <<entry, exit, lastEpipeErrorTime, lastTimeoutErrorTime,
                 epipeLog, start, restartIntervals, credential, transport,
                 lastHandled, lastStartFailure, shutdown>>
  /\ UNCHANGED <<initVars, toolVars, logVars, registryVars, raceVars, apiVars, eventVars>>

\* time passes between two events
Elapse ==
  /\ Running
  /\ Booted
  /\ now + ClockStep <= BootTime + MaxClock
  /\ now' = now + ClockStep
  /\ UNCHANGED <<isConnected, lastConnected, disconnectCallbacks,
                 reconnectCallbacks, lastOp, prevOp>>
  /\ UNCHANGED <<timerVars, initVars, toolVars, logVars, registryVars, raceVars, apiVars, eventVars, serverVars>>

(* startServer (index.ts), MCPServer.start (server/index.js) and the       *)
(* top-level start of halopsa-mcp.js                                       *)

\* startServer = async (retries = 5, delay = 2000)
START_RETRIES == 5
START_DELAY_MS == 2000
\* startServer(3, 5000) of the periodic restart
RESTART_RETRIES == 3
RESTART_DELAY_MS == 5000
\* Math.min(delay * 1.5, 30000)
MAX_DELAY_MS == 30000

Min(a, b) == IF a <= b THEN a ELSE b

\* Math.min(delay * 1.5, 30000), the delay held in half milliseconds so
\* that the product by 1.5 stays exact
\* a backoff that doubles the delay
NextDelayDoubling(delayHalfMs) == Min(delayHalfMs * 2, 2 * MAX_DELAY_MS)

NextDelay(delayHalfMs) == Min((delayHalfMs * 3) \div 2, 2 * MAX_DELAY_MS)

Signals == {"SIGINT", "SIGTERM", "SIGQUIT"}

\* the signals an entry program registers a handler for
HandledSignals(program) ==
  IF program = INDEX_TS THEN {"SIGINT", "SIGTERM", "SIGQUIT"}
  ELSE {"SIGINT", "SIGTERM"}

\* the startServer call under way: its arguments, and its history (the
\* top-level call it descends from, the attempts to start the transport and
\* the waits of that call so far, whether a start has succeeded and whether
\* one was attempted after that)
NoStart ==
  [phase |-> "boot", retries |-> 0, delayHalfMs |-> 0,
   call |-> "none", attempts |-> 0, waits |-> <<>>,
   succeeded |-> FALSE, again |-> FALSE]
NoTransport == [startCalled |-> FALSE, credentialAtStart |-> "notAttempted",
                stopCalled |-> FALSE]
NoStartFailure ==
  [valid |-> FALSE, program |-> INDEX_TS, cause |-> "none",
   class |-> "none", retries |-> 0, posture |-> "production",
   outcome |-> "none", waitHalfMs |-> 0]
NoShutdown == [signal |-> "none", phase |-> "none", cleanup |-> "none"]

\* server.start({transportType: 'stdio'}) is called
TransportStart ==
  transport' = [transport EXCEPT !.startCalled = TRUE,
                                 !.credentialAtStart = credential]

\* startServer(retries, delay) up to its await of server.start
StartServer(retries, delayHalfMs, call, attempts, waits) ==
  /\ start' = [phase |-> "starting", retries |-> retries,
               delayHalfMs |-> delayHalfMs,
               call |-> call, attempts |-> attempts + 1, waits |-> waits,
               succeeded |-> start.succeeded,
               again |-> start.again \/ start.succeeded]
  /\ TransportStart

\* index.ts reaches its last statement: startServer()
Boot ==
  /\ entry = INDEX_TS
  /\ Running
  /\ start.phase = "boot"
  /\ StartServer(START_RETRIES, 2 * START_DELAY_MS, "initial", 0, <<>>)
  /\ UNCHANGED <<connVars, timerVars, initVars, toolVars, logVars, registryVars, raceVars, apiVars, eventVars>>
  /\ UNCHANGED <<entry, exit, lastEpipeErrorTime, lastTimeoutErrorTime,
                 disconnectionCount, epipeLog, restartIntervals, credential,
                 lastHandled, lastStartFailure, shutdown>>

\* await server.start(..) resolves: the rest of the try block
StartSucceeds ==
  /\ entry = INDEX_TS
  /\ Running
  /\ start.phase = "starting"
  /\ lastEpipeErrorTime' = NoTime
  /\ lastTimeoutErrorTime' = NoTime
  /\ Apply(WorldSetConnected([World EXCEPT !.disconnectionCount = 0], TRUE))
  /\ start' = [start EXCEPT !.phase = "started", !.succeeded = TRUE]
  /\ epipeLog' = [epipeLog EXCEPT !.startedSince = TRUE]
  /\ UNCHANGED <<now, disconnectCallbacks, reconnectCallbacks, lastOp, prevOp,
                 handles, lastFire>>
  /\ UNCHANGED <<entry, exit, restartIntervals, credential, transport,
                 lastHandled, lastStartFailure, shutdown>>
  /\ UNCHANGED <<initVars, toolVars, logVars, registryVars, raceVars, apiVars, eventVars>>

\* what the catch block of startServer does with the error of a failed start
StartFailureOutcome(error, retries, posture) ==
  IF IsConnectionError(error)
  THEN IF posture = "production" THEN "wait" ELSE "return"
  ELSE IF retries > 0 THEN "retry"
  ELSE IF posture = "production" THEN "schedule" ELSE "exit"

\* await server.start(..) rejects: the catch block
StartFails(error) ==
  /\ entry = INDEX_TS
  /\ Running
  /\ start.phase = "starting"
  /\ LET outcome == StartFailureOutcome(error, start.retries, nodeEnv)
     IN /\ outcome = "schedule" => restartIntervals < MaxRestarts
        /\ Apply(IF IsConnectionError(error)
                 THEN WorldSetConnected(World, FALSE) ELSE World)
        /\ start' = [start EXCEPT !.phase =
                       CASE outcome = "wait" -> "waiting"
                         [] outcome = "return" -> "returned"
                         [] outcome = "retry" -> "backoff"
                         [] outcome = "schedule" -> "exhausted"
                         [] OTHER -> "failed"]
        /\ restartIntervals' = IF outcome = "schedule"
                               THEN restartIntervals + 1 ELSE restartIntervals
        /\ exit' = IF outcome = "exit" THEN "exit1" ELSE exit
        /\ lastStartFailure' =
             [valid |-> TRUE, program |-> INDEX_TS, cause |-> "start",
              class |-> ErrorClass(error), retries |-> start.retries,
              posture |-> nodeEnv, outcome |-> outcome,
              waitHalfMs |-> IF outcome = "retry" THEN start.delayHalfMs ELSE 0]
  /\ UNCHANGED <<now, disconnectCallbacks, reconnectCallbacks, lastOp, prevOp,
                 handles, lastFire>>
  /\ UNCHANGED <<entry, lastEpipeErrorTime, lastTimeoutErrorTime, epipeLog,
                 credential, transport, lastHandled, shutdown>>
  /\ UNCHANGED <<initVars, toolVars, logVars, registryVars, raceVars, apiVars, eventVars>>

\* the backoff timer of the catch block fires:
\* return startServer(retries - 1, Math.min(delay * 1.5, 30000))
BackoffElapses ==
  /\ entry = INDEX_TS
  /\ Running
  /\ start.phase = "backoff"
  /\ StartServer(start.retries - 1, NextDelay(start.delayHalfMs),
                 start.call, start.attempts,
                 Append(start.waits, start.delayHalfMs))
  /\ UNCHANGED <<connVars, timerVars, initVars, toolVars, logVars, registryVars, raceVars, apiVars, eventVars>>
  /\ UNCHANGED <<entry, exit, lastEpipeErrorTime, lastTimeoutErrorTime,
                 disconnectionCount, epipeLog, restartIntervals, credential,
                 lastHandled, lastStartFailure, shutdown>>

\* the periodic restart interval fires (every 5 minutes, no start being
\* under way by then): startServer(3, 5000)
RestartFires ==
  /\ entry = INDEX_TS
  /\ Running
  /\ restartIntervals > 0
  /\ start.phase \in {"exhausted", "started", "waiting", "returned"}
  /\ StartServer(RESTART_RETRIES, 2 * RESTART_DELAY_MS, "restart", 0, <<>>)
  /\ UNCHANGED <<connVars, timerVars, initVars, toolVars, logVars, registryVars, raceVars, apiVars, eventVars>>
  /\ UNCHANGED <<entry, exit, lastEpipeErrorTime, lastTimeoutErrorTime,
                 disconnectionCount, epipeLog, restartIntervals, credential,
                 lastHandled, lastStartFailure, shutdown>>

\* server/index.js: MCPServer.start() up to await verifyApiConnectivity()
McpServerBoot ==
  /\ entry = SERVER_INDEX_JS
  /\ Running
  /\ start.phase = "boot"
  /\ start' = [start EXCEPT !.phase = "verifying"]
  /\ UNCHANGED <<connVars, timerVars, initVars, toolVars, logVars, registryVars, raceVars, apiVars, eventVars>>
  /\ UNCHANGED <<entry, exit, lastEpipeErrorTime, lastTimeoutErrorTime,
                 disconnectionCount, epipeLog, restartIntervals, credential,
                 transport, lastHandled, lastStartFailure, shutdown>>

\* server/index.js: verifyApiConnectivity() settles; when the token was not
\* obtained the process exits, otherwise mcp.start is called
VerifyApiConnectivity(apiConnected) ==
  /\ entry = SERVER_INDEX_JS
  /\ Running
  /\ start.phase = "verifying"
  /\ credential' = IF apiConnected THEN "acquired" ELSE "failed"
  /\ IF apiConnected
     THEN /\ start' = [start EXCEPT !.phase = "starting"]
          /\ transport' = [transport EXCEPT !.startCalled = TRUE,
                                            !.credentialAtStart = credential']
          /\ UNCHANGED <<exit, lastStartFailure>>
     ELSE /\ start' = [start EXCEPT !.phase = "failed"]
          /\ exit' = "exit1"
          /\ lastStartFailure' =
               [valid |-> TRUE, program |-> SERVER_INDEX_JS,
                cause |-> "credential", class |-> "none", retries |-> 0,
                posture |-> nodeEnv, outcome |-> "exit", waitHalfMs |-> 0]
          /\ UNCHANGED transport
  /\ UNCHANGED <<connVars, timerVars, initVars, toolVars, logVars, registryVars, raceVars, apiVars, eventVars>>
  /\ UNCHANGED <<entry, lastEpipeErrorTime, lastTimeoutErrorTime,
                 disconnectionCount, epipeLog, restartIntervals, lastHandled,
                 shutdown>>

\* halopsa-mcp.js reaches its last statement: await mcp.start(..)
HalopsaBoot ==
  /\ entry = HALOPSA_MCP_JS
  /\ Running
  /\ start.phase = "boot"
  /\ start' = [start EXCEPT !.phase = "starting"]
  /\ TransportStart
  /\ UNCHANGED <<connVars, timerVars, initVars, toolVars, logVars, registryVars, raceVars, apiVars, eventVars>>
  /\ UNCHANGED <<entry, exit, lastEpipeErrorTime, lastTimeoutErrorTime,
                 disconnectionCount, epipeLog, restartIntervals, credential,
                 lastHandled, lastStartFailure, shutdown>>

\* server/index.js, halopsa-mcp.js: await mcp.start(..) resolves
McpStartResolves ==
  /\ entry \in {SERVER_INDEX_JS, HALOPSA_MCP_JS}
  /\ Running
  /\ start.phase = "starting"
  /\ start' = [start EXCEPT !.phase = "started"]
  /\ UNCHANGED <<connVars, timerVars, initVars, toolVars, logVars, registryVars, raceVars, apiVars, eventVars>>
  /\ UNCHANGED <<entry, exit, lastEpipeErrorTime, lastTimeoutErrorTime,
                 disconnectionCount, epipeLog, restartIntervals, credential,
                 transport, lastHandled, lastStartFailure, shutdown>>

\* server/index.js, halopsa-mcp.js: await mcp.start(..) rejects:
\* catch (error) { log; process.exit(1) }
McpStartRejects(error) ==
  /\ entry \in {SERVER_INDEX_JS, HALOPSA_MCP_JS}
  /\ Running
  /\ start.phase = "starting"
  /\ start' = [start EXCEPT !.phase = "failed"]
  /\ exit' = "exit1"
  /\ lastStartFailure' =
       [valid |-> TRUE, program |-> entry, cause |-> "start",
        class |-> ErrorClass(error), retries |-> 0, posture |-> nodeEnv,
        outcome |-> "exit", waitHalfMs |-> 0]
  /\ UNCHANGED <<connVars, timerVars, initVars, toolVars, logVars, registryVars, raceVars, apiVars, eventVars>>
  /\ UNCHANGED <<entry, lastEpipeErrorTime, lastTimeoutErrorTime,
                 disconnectionCount, epipeLog, restartIntervals, credential,
                 transport, lastHandled, shutdown>>

(* graceful shutdown: setupGracefulShutdown with the cleanup callback of   *)
(* index.ts; handleShutdown of server/index.js and of halopsa-mcp.js       *)

\* shutdown(signal) of setupGracefulShutdown:
\* try { await cleanupFn() } catch (error) { log }; process.exit(0)
ShutdownExit(cleanup) == "exit0"

\* the cleanup callback index.ts passes to setupGracefulShutdown: it clears
\* the registry and the subscriber lists, logs, and returns a resolved promise
IndexCleanup ==
  /\ Apply(WorldClearAll(World))
  /\ disconnectCallbacks' = <<>>
  /\ reconnectCallbacks' = <<>>

\* a termination signal is delivered to the process
Signal(sig) ==
  /\ Running
  /\ Booted
  /\ shutdown.phase = "none"
  /\ IF sig \notin HandledSignals(entry)
     THEN /\ exit' = "killed"
          /\ shutdown' = [signal |-> sig, phase |-> "killed", cleanup |-> "none"]
          /\ UNCHANGED <<connVars, timerVars, disconnectionCount, transport>>
     ELSE IF entry = INDEX_TS
     THEN /\ IndexCleanup
          /\ exit' = ShutdownExit("completes")
          /\ shutdown' = [signal |-> sig, phase |-> "done",
                          cleanup |-> "completes"]
          /\ UNCHANGED <<now, lastOp, prevOp, handles, lastFire, transport>>
     ELSE /\ shutdown' = [signal |-> sig,
                          phase |-> IF entry = SERVER_INDEX_JS
                                    THEN "closing" ELSE "stopping",
                          cleanup |-> "none"]
          /\ transport' = [transport EXCEPT !.stopCalled =
                             @ \/ entry = HALOPSA_MCP_JS]
          /\ UNCHANGED <<connVars, timerVars, disconnectionCount, exit>>
  /\ UNCHANGED <<entry, lastEpipeErrorTime, lastTimeoutErrorTime, epipeLog,
                 start, restartIntervals, credential, lastHandled,
                 lastStartFailure>>
  /\ UNCHANGED <<initVars, toolVars, logVars, registryVars, raceVars, apiVars, eventVars>>

\* server/index.js, halopsa-mcp.js: process.on('uncaughtException') logs
\* the error and calls handleShutdown
McpUncaughtException ==
  /\ entry \in {SERVER_INDEX_JS, HALOPSA_MCP_JS}
  /\ Running
  /\ Booted
  /\ shutdown.phase = "none"
  /\ shutdown' = [signal |-> "uncaughtException",
                  phase |-> IF entry = SERVER_INDEX_JS
                            THEN "closing" ELSE "stopping",
                  cleanup |-> "none"]
  /\ transport' = [transport EXCEPT !.stopCalled = @ \/ entry = HALOPSA_MCP_JS]
  /\ UNCHANGED <<connVars, timerVars, initVars, toolVars, logVars, registryVars, raceVars, apiVars, eventVars>>
  /\ UNCHANGED <<entry, exit, lastEpipeErrorTime, lastTimeoutErrorTime,
                 disconnectionCount, epipeLog, start, restartIntervals,
                 credential, lastHandled, lastStartFailure>>

\* server/index.js: the sessions are closed and their grace period is over:
\* await this.mcp.stop() is called
SessionsClosed ==
  /\ entry = SERVER_INDEX_JS
  /\ Running
  /\ shutdown.phase = "closing"
  /\ shutdown' = [shutdown EXCEPT !.phase = "stopping"]
  /\ transport' = [transport EXCEPT !.stopCalled = TRUE]
  /\ UNCHANGED <<connVars, timerVars, initVars, toolVars, logVars, registryVars, raceVars, apiVars, eventVars>>
  /\ UNCHANGED <<entry, exit, lastEpipeErrorTime, lastTimeoutErrorTime,
                 disconnectionCount, epipeLog, start, restartIntervals,
                 credential, lastHandled, lastStartFailure>>

\* server/index.js, halopsa-mcp.js: await mcp.stop() settles; a rejection is
\* caught and logged, and the exit timer is set
StopSettles(outcome) ==
  /\ entry \in {SERVER_INDEX_JS, HALOPSA_MCP_JS}
  /\ Running
  /\ shutdown.phase = "stopping"
  /\ shutdown' = [shutdown EXCEPT !.phase = "grace", !.cleanup = outcome]
  /\ UNCHANGED <<connVars, timerVars, initVars, toolVars, logVars, registryVars, raceVars, apiVars, eventVars>>
  /\ UNCHANGED <<entry, exit, lastEpipeErrorTime, lastTimeoutErrorTime,
                 disconnectionCount, epipeLog, start, restartIntervals,
                 credential, transport, lastHandled, lastStartFailure>>

\* server/index.js, halopsa-mcp.js: the exit timer fires: process.exit(0)
GraceElapses ==
  /\ entry \in {SERVER_INDEX_JS, HALOPSA_MCP_JS}
  /\ Running
  /\ shutdown.phase = "grace"
  /\ shutdown' = [shutdown EXCEPT !.phase = "done"]
  /\ exit' = "exit0"
  /\ UNCHANGED <<connVars, timerVars, initVars, toolVars, logVars, registryVars, raceVars, apiVars, eventVars>>
  /\ UNCHANGED <<entry, lastEpipeErrorTime, lastTimeoutErrorTime,
                 disconnectionCount, epipeLog, start, restartIntervals,
                 credential, transport, lastHandled, lastStartFailure>>

\* error handling and connection tracking of index.ts against its clock,
\* from boot to the end of the first start
ErrorsNext ==
  \/ \E error \in Errors : HandleError(error)
  \/ Ping
  \/ Elapse
  \/ Boot
  \/ StartSucceeds
  \/ \E error \in Errors : StartFails(error)

\* the start of the server in the three entry programs
StartupNext ==
  \/ Boot
  \/ StartSucceeds
  \/ \E error \in Errors : StartFails(error)
  \/ BackoffElapses
  \/ RestartFires
  \/ McpServerBoot
  \/ \E apiConnected \in BOOLEAN : VerifyApiConnectivity(apiConnected)
  \/ HalopsaBoot
  \/ McpStartResolves
  \/ \E error \in Errors : McpStartRejects(error)

\* shutdown of the three entry programs, before, during or after their
\* start, with the errors and pings that change what there is to clean up
ShutdownNext ==
  \/ \E sig \in Signals : Signal(sig)
  \/ McpUncaughtException
  \/ SessionsClosed
  \/ \E outcome \in {"resolves", "rejects"} : StopSettles(outcome)
  \/ GraceElapses
  \/ \E error \in Errors : HandleError(error)
  \/ Ping
  \/ Boot
  \/ StartSucceeds
  \/ McpServerBoot
  \/ \E apiConnected \in BOOLEAN : VerifyApiConnectivity(apiConnected)
  \/ HalopsaBoot
  \/ McpStartResolves
  \/ \E error \in Errors : McpStartRejects(error)

ServerNext ==
  \/ ErrorsNext
  \/ StartupNext
  \/ ShutdownNext

(* --------------------- events of a running server --------------------- *)

\* the period of the 'reconnection-handler' interval, and the time since the
\* last connection it looks for
CHECK_INTERVAL_MS == 60000
LONG_DISCONNECTION_MS == 300000

\* One getWorkflowSteps call: where it stands, how it ended, whether the
\* tracker was disconnected when it started, whether it called the upstream,
\* whether another call timed out while it was in flight, and whether its
\* completion turned the tracker from disconnected to connected.
NoStep ==
  [phase |-> "idle", outcome |-> "none", startedDisconnected |-> FALSE,
   upstream |-> FALSE, overlapped |-> FALSE, reconnected |-> FALSE]

NoCheck == [valid |-> FALSE, recovered |-> FALSE]

\* what an event of the running index.ts leaves alone
EventFrame ==
  /\ UNCHANGED <<disconnectCallbacks, reconnectCallbacks, lastOp, prevOp,
                 handles, lastFire>>
  /\ UNCHANGED <<entry, exit, lastEpipeErrorTime, lastTimeoutErrorTime,
                 epipeLog, start, restartIntervals, credential, transport,
                 lastHandled, lastStartFailure, shutdown>>
  /\ UNCHANGED <<initVars, toolVars, logVars, registryVars, raceVars, apiVars>>

\* execute of getWorkflowSteps up to its await: a disconnected tracker
\* refuses the call, else api.getWorkflowSteps is called under withTimeout
StepsCalled(i) ==
  /\ entry = INDEX_TS
  /\ Running
  /\ Booted
  /\ steps[i].phase = "idle"
  /\ steps' = [steps EXCEPT ![i] =
                 IF ~isConnected
                   THEN [@ EXCEPT !.phase = "done", !.outcome = "refused",
                                  !.startedDisconnected = ~isConnected]
                 ELSE [@ EXCEPT !.phase = "upstream", !.upstream = TRUE,
                                !.startedDisconnected = ~isConnected]]
  /\ UNCHANGED <<now, lastCheck, connectEvent>>
  /\ Apply(World)
  /\ EventFrame

\* the upstream answers in time: the tracker is set connected
StepsFulfils(i) ==
  /\ entry = INDEX_TS
  /\ Running
  /\ steps[i].phase = "upstream"
  /\ LET w == WorldSetConnected(World, TRUE)
     IN /\ Apply(w)
        /\ steps' = [steps EXCEPT ![i] =
                       [@ EXCEPT !.phase = "done", !.outcome = "success",
                                 !.reconnected = ~isConnected /\ w.isConnected]]
  /\ UNCHANGED <<now, lastCheck, connectEvent>>
  /\ EventFrame

\* the 25 s of withTimeout pass first (or the upstream fails with ETIMEDOUT):
\* the tracker is set disconnected
StepsTimesOut(i) ==
  /\ entry = INDEX_TS
  /\ Running
  /\ steps[i].phase = "upstream"
  /\ Apply(WorldSetConnected(World, FALSE))
  /\ steps' = [j \in 1..MaxSteps |->
                 IF j = i
                   THEN [steps[j] EXCEPT !.phase = "done", !.outcome = "timedOut"]
                 ELSE IF steps[j].phase = "upstream"
                   THEN [steps[j] EXCEPT !.overlapped = TRUE]
                 ELSE steps[j]]
  /\ UNCHANGED <<now, lastCheck, connectEvent>>
  /\ EventFrame

\* the upstream fails with any other error
StepsRejects(i) ==
  /\ entry = INDEX_TS
  /\ Running
  /\ steps[i].phase = "upstream"
  /\ steps' = [steps EXCEPT ![i] =
                 [@ EXCEPT !.phase = "done",
                           !.outcome = IF ~isConnected THEN "disconnectedDuring"
                                       ELSE "failed"]]
  /\ UNCHANGED <<now, lastCheck, connectEvent>>
  /\ Apply(World)
  /\ EventFrame

\* the 'reconnection-handler' interval is registered and not cleared
ReconnectionHandlerLive ==
  /\ CallerId("reconnection-handler") \in DOMAIN timers
  /\ timers[CallerId("reconnection-handler")] \in pending

\* !connectionState.isConnected && connectionState.timeSinceConnected > 300000
LongDisconnection == ~isConnected /\ now - lastConnected > LONG_DISCONNECTION_MS

\* the 'reconnection-handler' interval fires: after a long disconnection it
\* clears the registry
ReconnectionCheck ==
  /\ entry = INDEX_TS
  /\ Running
  /\ Booted
  /\ ReconnectionHandlerLive
  /\ Apply(IF LongDisconnection THEN WorldClearAll(World) ELSE World)
  /\ lastCheck' = [valid |-> TRUE, recovered |-> LongDisconnection]
  /\ UNCHANGED <<now, steps, connectEvent>>
  /\ EventFrame

\* a period of the 'reconnection-handler' interval passes
MinutePasses ==
  /\ entry = INDEX_TS
  /\ Running
  /\ Booted
  /\ now + CHECK_INTERVAL_MS <= BootTime + MaxMinutes * CHECK_INTERVAL_MS
  /\ now' = now + CHECK_INTERVAL_MS
  /\ UNCHANGED <<isConnected, lastConnected, disconnectCallbacks,
                 reconnectCallbacks, lastOp, prevOp>>
  /\ UNCHANGED <<timerVars, initVars, toolVars, logVars, registryVars, raceVars,
                 apiVars, eventVars, serverVars>>

\* a connection-class error reaches handleError: the client is gone
Disconnect == HandleError(ErrorObject("EPIPE", <<"write", "EPIPE">>, 0))

\* connection tracking of the running index.ts: disconnections, pings and
\* getWorkflowSteps calls
TrackerNext ==
  \/ Boot
  \/ StartSucceeds
  \/ Disconnect
  \/ Ping
  \/ \E i \in 1..MaxSteps :
       \/ StepsCalled(i)
       \/ StepsFulfils(i)
       \/ StepsTimesOut(i)
       \/ StepsRejects(i)

\* the periodic check of the running index.ts against its clock
HealthNext ==
  \/ Boot
  \/ StartSucceeds
  \/ Disconnect
  \/ Ping
  \/ ReconnectionCheck
  \/ MinutePasses

(* -------------------- events of the compatibility layer ----------------- *)

\* the events a caller subscribes to through the patched mcp.on, and what a
\* handler does when it is called
McpEvents == {"connect", "disconnect", "error"}
HandlerKinds == {"returns", "throws"}

\* the session of a connect event: with a requestSampling that returns a
\* promise, with one that throws, or without one
Sessions == {"sampling", "samplingThrows", "noSampling"}

NoConnectEvent ==
  [listeners |-> <<>>,
   dispatch |-> [valid |-> FALSE, event |-> "none", calls |-> <<>>,
                 welcomes |-> 0, propagated |-> FALSE]]

\* enhancedHandler of 'connect': try { handler(event); welcome message }
\* catch { log; handler(event) }. The errors of the welcome message are
\* ignored; a handler that throws is called again in the catch block, where
\* nothing catches.
ConnectHandler(kind, session) ==
  IF kind = "throws"
    THEN [calls |-> 2, welcomes |-> 0, throws |-> TRUE]
  ELSE [calls |-> 1, welcomes |-> IF session = "noSampling" THEN 0 ELSE 1,
        throws |-> FALSE]

\* the listener mcp.on hands to the original on, when it is called: the
\* wrapper of 'connect', the wrapper of 'error' (handler(enhanceError(error)))
\* or the handler itself
Listener(event, kind, session) ==
  IF event = "connect" THEN ConnectHandler(kind, session)
  ELSE [calls |-> 1, welcomes |-> 0, throws |-> kind = "throws"]

\* mcp.on(event, handler)
On(event, kind) ==
  /\ Len(connectEvent.listeners) < MaxListeners
  /\ connectEvent' = [connectEvent EXCEPT !.listeners =
                        Append(@, [event |-> event, kind |-> kind])]
  /\ UNCHANGED <<steps, lastCheck>>
  /\ UNCHANGED <<connVars, timerVars, initVars, toolVars, logVars, registryVars,
                 raceVars, apiVars, serverVars>>

RECURSIVE EmitTo(_, _, _, _)
\* emit: the listeners of the event are called in the order of their
\* registration; the first one that throws ends the dispatch
EmitTo(listeners, event, session, done) ==
  IF listeners = <<>> THEN done
  ELSE IF Head(listeners).event # event
    THEN EmitTo(Tail(listeners), event, session,
                [done EXCEPT !.calls = Append(@, 0)])
  ELSE LET ran == Listener(event, Head(listeners).kind, session)
           next == [done EXCEPT !.calls = Append(@, ran.calls),
                                !.welcomes = @ + ran.welcomes,
                                !.propagated = ran.throws]
       IN IF ran.throws
            THEN [next EXCEPT !.calls =
                    @ \o [k \in 1..Len(Tail(listeners)) |-> 0]]
          ELSE EmitTo(Tail(listeners), event, session, next)

\* the framework emits an event
Emit(event, session) ==
  /\ connectEvent' = [connectEvent EXCEPT !.dispatch =
                        EmitTo(connectEvent.listeners, event, session,
                               [valid |-> TRUE, event |-> event, calls |-> <<>>,
                                welcomes |-> 0, propagated |-> FALSE])]
  /\ UNCHANGED <<steps, lastCheck>>
  /\ UNCHANGED <<connVars, timerVars, initVars, toolVars, logVars, registryVars,
                 raceVars, apiVars, serverVars>>

McpEventsNext ==
  \/ \E event \in McpEvents : \E kind \in HandlerKinds : On(event, kind)
  \/ \E event \in McpEvents : \E session \in Sessions : Emit(event, session)

(* --------------------------- specifications --------------------------- *)

Init ==
  /\ isConnected = TRUE
  /\ now = 0
  /\ lastConnected = 0
  /\ disconnectCallbacks = <<>>
  /\ reconnectCallbacks = <<>>
  /\ lastOp = NoOp
  /\ prevOp = NoOp
  /\ timers = <<>>
  /\ pending = {}
  /\ handles = <<>>
  /\ lastFire = NoFire
  /\ lastSweep = NoSweep
  /\ entry = INDEX_TS
  /\ exit = "running"
  /\ lastEpipeErrorTime = NoTime
  /\ lastTimeoutErrorTime = NoTime
  /\ disconnectionCount = 0
  /\ epipeLog = NoEpipeLog
  /\ start = NoStart
  /\ restartIntervals = 0
  /\ credential = "notAttempted"
  /\ transport = NoTransport
  /\ lastHandled = NoHandled
  /\ lastStartFailure = NoStartFailure
  /\ shutdown = NoShutdown
  /\ configModels = NoModels
  /\ handshake = NoHandshake
  /\ handshakes = 0
  /\ nodeEnv = "production"
  /\ toolCall = NoToolCall
  /\ toolCalls = 0
  /\ diagnostics = {}
  /\ tokenCache = "empty"
  /\ addToolPatched = FALSE
  /\ mcpTools = <<>>
  /\ lastAdd = NoAdd
  /\ lastCall = NoCall
  /\ lastParse = NoParse
  /\ races = [i \in 1..MaxRaces |-> NoRace]
  /\ retry = NoRetry
  /\ apiRequests = [i \in 1..MaxRequests |-> NoRequest]
  /\ tokenCaches = [impl \in ApiClients |-> 0]
  /\ issued = 0
  /\ rejectedTokens = [impl \in ApiClients |-> {}]
  /\ steps = [i \in 1..MaxSteps |-> NoStep]
  /\ lastCheck = NoCheck
  /\ connectEvent = NoConnectEvent

\* the negotiator, for either server configuration
InitNegotiator ==
  /\ isConnected = TRUE
  /\ now = 0
  /\ lastConnected = 0
  /\ disconnectCallbacks = <<>>
  /\ reconnectCallbacks = <<>>
  /\ lastOp = NoOp
  /\ prevOp = NoOp
  /\ timers = <<>>
  /\ pending = {}
  /\ handles = <<>>
  /\ lastFire = NoFire
  /\ lastSweep = NoSweep
  /\ entry = INDEX_TS
  /\ exit = "running"
  /\ lastEpipeErrorTime = NoTime
  /\ lastTimeoutErrorTime = NoTime
  /\ disconnectionCount = 0
  /\ epipeLog = NoEpipeLog
  /\ start = NoStart
  /\ restartIntervals = 0
  /\ credential = "notAttempted"
  /\ transport = NoTransport
  /\ lastHandled = NoHandled
  /\ lastStartFailure = NoStartFailure
  /\ shutdown = NoShutdown
  /\ configModels \in ConfigModels
  /\ handshake = NoHandshake
  /\ handshakes = 0
  /\ nodeEnv = "production"
  /\ toolCall = NoToolCall
  /\ toolCalls = 0
  /\ diagnostics = {}
  /\ tokenCache = "empty"
  /\ addToolPatched = FALSE
  /\ mcpTools = <<>>
  /\ lastAdd = NoAdd
  /\ lastCall = NoCall
  /\ lastParse = NoParse
  /\ races = [i \in 1..MaxRaces |-> NoRace]
  /\ retry = NoRetry
  /\ apiRequests = [i \in 1..MaxRequests |-> NoRequest]
  /\ tokenCaches = [impl \in ApiClients |-> 0]
  /\ issued = 0
  /\ rejectedTokens = [impl \in ApiClients |-> {}]
  /\ steps = [i \in 1..MaxSteps |-> NoStep]
  /\ lastCheck = NoCheck
  /\ connectEvent = NoConnectEvent

\* the tool wrapper, in either posture
InitTool ==
  /\ isConnected = TRUE
  /\ now = 0
  /\ lastConnected = 0
  /\ disconnectCallbacks = <<>>
  /\ reconnectCallbacks = <<>>
  /\ lastOp = NoOp
  /\ prevOp = NoOp
  /\ timers = <<>>
  /\ pending = {}
  /\ handles = <<>>
  /\ lastFire = NoFire
  /\ lastSweep = NoSweep
  /\ entry = INDEX_TS
  /\ exit = "running"
  /\ lastEpipeErrorTime = NoTime
  /\ lastTimeoutErrorTime = NoTime
  /\ disconnectionCount = 0
  /\ epipeLog = NoEpipeLog
  /\ start = NoStart
  /\ restartIntervals = 0
  /\ credential = "notAttempted"
  /\ transport = NoTransport
  /\ lastHandled = NoHandled
  /\ lastStartFailure = NoStartFailure
  /\ shutdown = NoShutdown
  /\ configModels = NoModels
  /\ handshake = NoHandshake
  /\ handshakes = 0
  /\ nodeEnv \in {"production", "development"}
  /\ toolCall = NoToolCall
  /\ toolCalls = 0
  /\ diagnostics = {}
  /\ tokenCache = "empty"
  /\ addToolPatched = FALSE
  /\ mcpTools = <<>>
  /\ lastAdd = NoAdd
  /\ lastCall = NoCall
  /\ lastParse = NoParse
  /\ races = [i \in 1..MaxRaces |-> NoRace]
  /\ retry = NoRetry
  /\ apiRequests = [i \in 1..MaxRequests |-> NoRequest]
  /\ tokenCaches = [impl \in ApiClients |-> 0]
  /\ issued = 0
  /\ rejectedTokens = [impl \in ApiClients |-> {}]
  /\ steps = [i \in 1..MaxSteps |-> NoStep]
  /\ lastCheck = NoCheck
  /\ connectEvent = NoConnectEvent

\* an entry program at its last statement, in either posture: index.ts has
\* subscribed its two callbacks and registered its two intervals
\* ('reconnection-handler', 'server-watchdog') with the timer registry
InitServer ==
  /\ entry \in Entries
  /\ nodeEnv \in Postures
  /\ isConnected = TRUE
  /\ now = BootTime
  /\ lastConnected = BootTime
  /\ disconnectCallbacks =
       IF entry = INDEX_TS THEN <<"onDisconnectCleanup">> ELSE <<>>
  /\ reconnectCallbacks =
       IF entry = INDEX_TS THEN <<"onReconnectReset">> ELSE <<>>
  /\ lastOp = NoOp
  /\ prevOp = NoOp
  /\ timers = IF entry = INDEX_TS
              THEN (CallerId("reconnection-handler") :> 1)
                   @@ (CallerId("server-watchdog") :> 2)
              ELSE <<>>
  /\ pending = IF entry = INDEX_TS THEN {1, 2} ELSE {}
  /\ handles =
       IF entry = INDEX_TS
       THEN <<[kind |-> "interval", id |-> CallerId("reconnection-handler"),
               cb |-> "ok"],
              [kind |-> "interval", id |-> CallerId("server-watchdog"),
               cb |-> "ok"]>>
       ELSE <<>>
  /\ lastFire = NoFire
  /\ lastSweep = NoSweep
  /\ exit = "running"
  /\ lastEpipeErrorTime = NoTime
  /\ lastTimeoutErrorTime = NoTime
  /\ disconnectionCount = 0
  /\ epipeLog = NoEpipeLog
  /\ start = NoStart
  /\ restartIntervals = 0
  /\ credential = "notAttempted"
  /\ transport = NoTransport
  /\ lastHandled = NoHandled
  /\ lastStartFailure = NoStartFailure
  /\ shutdown = NoShutdown
  /\ configModels = NoModels
  /\ handshake = NoHandshake
  /\ handshakes = 0
  /\ toolCall = NoToolCall
  /\ toolCalls = 0
  /\ diagnostics = {}
  /\ tokenCache = "empty"
  /\ addToolPatched = FALSE
  /\ mcpTools = <<>>
  /\ lastAdd = NoAdd
  /\ lastCall = NoCall
  /\ lastParse = NoParse
  /\ races = [i \in 1..MaxRaces |-> NoRace]
  /\ retry = NoRetry
  /\ apiRequests = [i \in 1..MaxRequests |-> NoRequest]
  /\ tokenCaches = [impl \in ApiClients |-> 0]
  /\ issued = 0
  /\ rejectedTokens = [impl \in ApiClients |-> {}]
  /\ steps = [i \in 1..MaxSteps |-> NoStep]
  /\ lastCheck = NoCheck
  /\ connectEvent = NoConnectEvent

\* the whole layer: the components side by side
Next ==
  \/ ConnNext
  \/ TimerNext
  \/ InitializeNext
  \/ ToolNext
  \/ LogNext
  \/ RegistryNext
  \/ SchemaNext
  \/ RaceNext
  \/ RetryNext
  \/ ApiNext
  \/ TrackerNext
  \/ HealthNext
  \/ McpEventsNext
  \/ ServerNext

Spec == Init /\ [][Next]_vars

\* the components on their own
SpecConn == Init /\ [][ConnNext]_vars

SpecTimer == Init /\ [][TimerNext]_vars

SpecNegotiator == InitNegotiator /\ [][InitializeNext]_vars

SpecTool == InitTool /\ [][ToolNext]_vars

SpecServer == InitServer /\ [][ServerNext]_vars

SpecErrors == InitServer /\ [][ErrorsNext]_vars

SpecStartup == InitServer /\ [][StartupNext]_vars

SpecShutdown == InitServer /\ [][ShutdownNext]_vars

\* the diagnostic writes of the negotiator, of wrapped handlers and of the
\* upstream API functions
SpecLog == InitNegotiator /\ [][LogNext]_vars

\* tool registration and the calls of registered tools
SpecRegistry == InitTool /\ [][RegistryNext]_vars

\* validators created from schema descriptions, applied to values
SpecSchema == InitTool /\ [][SchemaNext]_vars

\* withTimeout calls racing their promise against their timer
SpecRace == InitTool /\ [][RaceNext]_vars

\* withRetry calls
SpecRetry == InitTool /\ [][RetryNext]_vars

\* requests to the upstream through the three clients
SpecApi == InitTool /\ [][ApiNext]_vars

\* connection tracking of the running index.ts; the client keeps sending
\* pings and keeps going away
SpecTracker ==
  InitServer /\ [][TrackerNext]_vars /\ WF_vars(Ping) /\ WF_vars(Disconnect)

\* the 'reconnection-handler' interval of the running index.ts
SpecHealth == InitServer /\ [][HealthNext]_vars

\* subscriptions and dispatches through the compatibility layer
SpecMcpEvents == InitTool /\ [][McpEventsNext]_vars

(* ------------------------------- claims ------------------------------- *)

\* the JSON text of {error: {message, code}} for a thrown value, with or
\* without the stack the development posture adds
ExpectedEnvelopeText(e, withStack) ==
  Serialize(
    JsObj(<<Prop("error",
      JsObj(<<Prop("message", Get(e, "message")),
              Prop("code", IF Truthy(Get(e, "code")) THEN Get(e, "code")
                           ELSE JsStr("EXECUTION_ERROR")),
              Prop("stack", IF withStack THEN Get(e, "stack") ELSE JsUndefined)>>))>>),
    "", "")

\* C1: a tool function produced by wrapToolHandler never rejects, whatever the
\* handler does and whether or not the caller passes a context; when the
\* handler throws, it resolves with one text item whose text is the JSON of
\* {error: {message, code}}, code defaulting to EXECUTION_ERROR.
C1_WrapperNeverRejects ==
  toolCall.valid =>
    /\ toolCall.settled = "resolved"
    /\ toolCall.handler.kind = "throw" =>
         \E withStack \in BOOLEAN :
           toolCall.value
             = TextItem(JsStr(ExpectedEnvelopeText(toolCall.handler.v, withStack)))

ValidClientInfo(ci) == ci.def /\ ci.name # "" /\ ci.version # ""

\* a handshake whose request carries a valid clientInfo and omits
\* protocolVersion, capabilities, or both
OmitsFields ==
  /\ handshake.valid
  /\ ValidClientInfo(handshake.request.clientInfo)
  /\ ~handshake.request.protocolVersion.def \/ ~handshake.request.capabilities.def

ReturnsNonNullResult ==
  /\ handshake.outcome = "result"
  /\ handshake.response.protocolVersion.def
  /\ handshake.response.capabilities.def

\* C2 (as stated): for every handshake request with a valid clientInfo that
\* omits protocolVersion, capabilities, or both, the patched initialize handler
\* returns a result instead of raising, with non-null protocolVersion and
\* capabilities.
C2_AlwaysReturnsResult == OmitsFields => ReturnsNonNullResult

\* C2 (amended): for every such request the patched handler returns a result
\* with non-null protocolVersion and capabilities, unless the underlying
\* handler fails the repaired attempt with an error whose message does not
\* contain 'Required' (which is re-raised).
C2_ReturnsResultUnlessOtherError ==
  OmitsFields /\ (handshake.errors = <<>> \/ Includes(handshake.errors[1], "Required"))
    => ReturnsNonNullResult

\* C2 witness: a request carrying only a valid clientInfo is answered by the
\* underlying handler on the repaired attempt.
C2_Witness ==
  /\ OmitsFields
  /\ ~handshake.request.protocolVersion.def
  /\ ~handshake.request.capabilities.def
  /\ handshake.rung = "repaired"
  /\ ReturnsNonNullResult

C4_FallbackOnlyAfterRequired ==
  handshake.valid =>
    \A i \in 1..Len(handshake.errors) :
      IF Includes(handshake.errors[i], "Required")
        THEN TRUE
      ELSE /\ handshake.outcome = "raised"
           /\ handshake.raised = handshake.errors[i]
           /\ Len(handshake.handed) = i

\* a content item of the canonical envelope: tagged text or image, a text item
\* carrying a string
CanonicalItem(v) ==
  /\ v.t = "object"
  /\ Get(v, "type").t = "string"
  /\ Get(v, "type").s \in {"text", "image"}
  /\ Get(v, "type").s = "text" => Get(v, "text").t = "string"

CanonicalEnvelope(v) ==
  \/ CanonicalItem(v)
  \/ /\ v.t = "object"
     /\ Get(v, "content").t = "array"
     /\ \A i \in 1..Len(Get(v, "content").kids) :
          CanonicalItem(Get(v, "content").kids[i].v)

\* C5: normalizeResult is total and yields the canonical envelope: whatever
\* the handler returns, the call resolves with a content item tagged text or
\* image, or a content array of such items, every text item carrying a string.
C5_NormalizeTotalAndCanonical ==
  toolCall.valid /\ toolCall.handler.kind = "return" =>
    /\ toolCall.settled = "resolved"
    /\ CanonicalEnvelope(toolCall.value)

\* C6: normalizeResult is idempotent: normalizing what it returned for a
\* handler's value returns it unchanged.
C6_NormalizeIdempotent ==
  toolCall.valid /\ toolCall.handler.kind = "return" /\ toolCall.settled = "resolved" =>
    /\ ~NormalizeResult(toolCall.value, nodeEnv).raised
    /\ NormalizeResult(toolCall.value, nodeEnv).v = toolCall.value

\* C6 witness: the handler's value was a content array with a malformed item,
\* which normalizeResult replaced by a content array of one text item.
C6_Witness ==
  /\ toolCall.valid
  /\ toolCall.handler.kind = "return"
  /\ toolCall.settled = "resolved"
  /\ toolCall.value # toolCall.handler.v
  /\ Get(toolCall.handler.v, "content").t = "array"
  /\ Get(toolCall.value, "content").t = "array"

\* C7: setConnected(v) with v equal to the current state invokes no callback
\* and leaves isConnected and lastConnected unchanged; callbacks run only on a
\* real transition.
C7_SameStateIsNoOp ==
  lastOp.valid =>
    /\ lastOp.arg = lastOp.pre =>
         /\ lastOp.invoked = <<>>
         /\ lastOp.post = lastOp.pre
         /\ lastOp.postLast = lastOp.preLast
    /\ lastOp.invoked # <<>> => lastOp.pre # lastOp.arg /\ lastOp.post = lastOp.arg
    /\ isConnected = lastOp.post
    /\ lastConnected = lastOp.postLast

\* C7 witness: setConnected(true) on a connected tracker that has reconnect
\* callbacks, at a time later than lastConnected.
C7_Witness ==
  /\ lastOp.valid
  /\ lastOp.arg
  /\ lastOp.pre
  /\ reconnectCallbacks # <<>>
  /\ now > lastOp.preLast
  /\ lastConnected = lastOp.preLast

\* two setConnected(true) calls in a row
TwiceTrueInARow == lastOp.valid /\ prevOp.valid /\ lastOp.arg /\ prevOp.arg

\* how many times a call fired the reconnect callback list
ReconnectFirings(op) == IF op.edge = "reconnect" THEN 1 ELSE 0

\* C8 (as stated): setConnected(true) twice in a row fires the reconnect
\* callback list exactly once, from every state the tracker can be in at the
\* first call, the freshly initialized one (connected = true) included.
C8_TwiceFiresExactlyOnce ==
  TwiceTrueInARow => ReconnectFirings(prevOp) + ReconnectFirings(lastOp) = 1

\* C8 (amended): setConnected(true) twice in a row fires the reconnect callback
\* list at most once: exactly once, on the first call, when the tracker was
\* disconnected before it, and not at all when it was already connected (as
\* it is when freshly initialized).
C8_TwiceFiresOnceIffDisconnected ==
  TwiceTrueInARow =>
    /\ ReconnectFirings(prevOp) + ReconnectFirings(lastOp)
         = IF prevOp.pre THEN 0 ELSE 1
    /\ ReconnectFirings(lastOp) = 0
    /\ lastOp.invoked = <<>>
    /\ prevOp.invoked = IF prevOp.pre THEN <<>> ELSE reconnectCallbacks

\* C8 witness: the first of the two calls found the tracker disconnected and
\* ran the registered reconnect callbacks.
C8_Witness ==
  /\ TwiceTrueInARow
  /\ ~prevOp.pre
  /\ prevOp.invoked # <<>>

\* C9: when setConnected changes the state, every callback registered for that
\* edge runs exactly once, in registration order; a callback that throws is
\* logged, does not stop the callbacks after it and does not propagate.
C9_CallbacksAllRunInOrder ==
  lastOp.valid /\ lastOp.pre # lastOp.arg =>
    LET registered == IF lastOp.arg THEN reconnectCallbacks ELSE disconnectCallbacks
    IN /\ lastOp.invoked = registered
       /\ lastOp.logged = SelectSeq(registered, CallbackThrows)
       /\ ~lastOp.escaped

\* C9 witness: a transition whose first callback throws and whose second
\* callback still runs.
C9_Witness ==
  /\ lastOp.valid
  /\ lastOp.pre # lastOp.arg
  /\ Len(lastOp.cbs) >= 2
  /\ CallbackThrows(lastOp.cbs[1])
  /\ Len(lastOp.invoked) >= 2
  /\ lastOp.invoked[2] = "cbOk"

\* every one-shot timer scheduled so far has left the event loop
OneShotsAllFired ==
  \A h \in DOMAIN handles : handles[h].kind = "once" => h \notin pending

\* C10: once the one-shot timers scheduled through setTimeout have all fired,
\* the registry holds no entry of theirs (0 entries when only one-shot timers
\* were scheduled); a one-shot timer's entry is gone after it fires, whether
\* its callback returned or threw, and the exception does not escape.
C10_FiredOneShotsLeaveNoEntry ==
  /\ OneShotsAllFired =>
       /\ \A id \in DOMAIN timers : handles[timers[id]].kind = "interval"
       /\ (\A h \in DOMAIN handles : handles[h].kind = "once") => TimerCount = 0
  /\ lastFire.valid /\ lastFire.kind = "once" =>
       /\ lastFire.removed
       /\ ~lastFire.escaped
       /\ lastFire.threw => lastFire.logged

\* C10 witness: several one-shot timers have all fired, the last with a
\* callback that threw, and the registry is empty.
C10_Witness ==
  /\ Cardinality(DOMAIN handles) >= 2
  /\ \A h \in DOMAIN handles : handles[h].kind = "once"
  /\ OneShotsAllFired
  /\ lastFire.valid
  /\ lastFire.threw
  /\ TimerCount = 0


\* a handle the event loop still holds is the registry's entry for its id
Tracked(h) ==
  /\ handles[h].id \in DOMAIN timers
  /\ timers[handles[h].id] = h

\* C11: every timer or interval created through setTimeout / setInterval that
\* has not yet fired (one-shot) or been cleared is tracked by the registry, so
\* clear(id) or clearAll() can stop it; this for every sequence of scheduling
\* calls, reuse of a caller-supplied id while an earlier timer with that id
\* is pending included.
C11_PendingStaysTracked == \A h \in pending : Tracked(h)


\* C12: after clearAll() the registry holds 0 entries, and no callback of a
\* timer or interval scheduled through the registry before that call is
\* invoked afterwards.
C12_NothingRunsAfterClearAll ==
  /\ lastSweep.valid => lastSweep.count = 0
  /\ lastFire.valid => ~lastFire.swept


\* the disconnection count never exceeds 1: every reconnect edge resets it
DisconnectionCountAtMostOne == disconnectionCount <= 1


\* C13: after handleError has processed a connection-class error (EPIPE,
\* ECONNRESET, ECONNABORTED) or a timeout-class error, in either posture, the
\* tracker is disconnected, the timer registry holds 0 entries, and the
\* process has not exited.
C13_HandledErrorDisconnectsAndClears ==
  lastHandled.valid /\ lastHandled.class \in {"connection", "timeout"} =>
    /\ ~lastHandled.postConnected
    /\ lastHandled.postCount = 0
    /\ lastHandled.exit = "running"

\* C13 witness: in development posture a timeout-class error was handled
\* while the registry held its intervals; the tracker is disconnected, the
\* registry is empty and the process runs on.
C13_Witness ==
  /\ nodeEnv = "development"
  /\ lastHandled.valid
  /\ lastHandled.class = "timeout"
  /\ lastSweep.valid
  /\ lastSweep.scheduled # {}
  /\ pending = {}
  /\ ~isConnected
  /\ TimerCount = 0
  /\ Running

\* C14: over any sequence of handled broken-pipe / reset / aborted errors,
\* interleaved with any other server event (successful starts and reconnects
\* included), two logged occurrences are always more than 5000 ms apart (at
\* most one per throttling window), and the tracker is disconnected once such
\* an error has been handled.
C14_AtMostOneLogPerWindow ==
  lastHandled.valid /\ lastHandled.class = "connection" =>
    /\ lastHandled.logged => ~lastHandled.tooSoon
    /\ ~lastHandled.postConnected

\* C15: the transport is started only after a credential acquisition has
\* succeeded: while the acquisition is failing or has not been attempted, the
\* server never calls the transport's start.
C15_TransportStartsAfterCredential ==
  transport.startCalled => transport.credentialAtStart = "acquired"

\* C16: when the transport start fails with a connection-class error and
\* attempts are left, startServer waits with exponential backoff and then
\* starts again.
C16_ConnectionErrorRetriesWithBackoff ==
  /\ lastStartFailure.valid
  /\ lastStartFailure.program = INDEX_TS
  /\ lastStartFailure.class = "connection"
  /\ lastStartFailure.retries > 0
  => /\ lastStartFailure.outcome = "retry"
     /\ lastStartFailure.waitHalfMs > 0

\* a startup failure that is final: the credential verification failed, or
\* the start failed with no attempt left
FinalStartupFailure ==
  /\ lastStartFailure.valid
  /\ \/ lastStartFailure.cause = "credential"
     \/ lastStartFailure.cause = "start" /\ lastStartFailure.retries = 0

\* C17: a final startup failure (credential verification failed, or the start
\* attempts used up, whatever the class of the start error) ends the process
\* with exit code 1 exactly in development posture; in production posture it
\* does not end the process, and after exhausted attempts a periodic restart
\* is scheduled.
C17_StartupFailureExitsOnlyInDevelopment ==
  FinalStartupFailure =>
    /\ lastStartFailure.outcome = "exit" <=> lastStartFailure.posture = "development"
    /\ exit = "exit1" <=> lastStartFailure.posture = "development"
    /\ lastStartFailure.posture = "production" /\ lastStartFailure.cause = "start"
         => lastStartFailure.outcome = "schedule"

\* C18: once SIGINT, SIGTERM or SIGQUIT has been received, the process ends
\* with exit code 0 and in no other way, whether the cleanup completes,
\* throws or rejects.
C18_SignalExitsWithCodeZero ==
  shutdown.signal \in Signals /\ ~Running => exit = "exit0"

\* C19: when the process exits after a termination signal, all tracked
\* timers have been cancelled (registry count 0), both subscriber lists of
\* the tracker are empty, and the transport has been told to stop.
C19_ExitLeavesNothingBehind ==
  shutdown.signal \in Signals /\ exit = "exit0" =>
    /\ TimerCount = 0
    /\ disconnectCallbacks = <<>>
    /\ reconnectCallbacks = <<>>
    /\ transport.stopCalled

\* C20: for an error that is neither connection-class nor timeout-class,
\* handleError ends the process with a non-zero exit code in development
\* posture and only logs in production posture; in production posture no
\* error reaching handleError ends the process; and such an error changes
\* neither the connection state nor the timer registry.
C20_UnhandledExitsOnlyInDevelopment ==
  lastHandled.valid =>
    /\ lastHandled.class = "other" =>
         /\ lastHandled.exit = "exit1" <=> nodeEnv = "development"
         /\ lastHandled.exit = "running" <=> nodeEnv = "production"
         /\ lastHandled.unchanged
    /\ nodeEnv = "production" => lastHandled.exit = "running"

\* C20 witness: in production posture an error of neither class was handled
\* while the tracker was connected and the registry held its intervals; the
\* process runs on with both untouched.
C20_Witness ==
  /\ nodeEnv = "production"
  /\ lastHandled.valid
  /\ lastHandled.class = "other"
  /\ lastHandled.unchanged
  /\ isConnected
  /\ TimerCount = 2
  /\ Running


\* C21: an error carrying the timed-out connection code ETIMEDOUT, an
\* explicit timeout message or the reserved timeout code is expected and
\* recoverable: handleError marks the tracker disconnected and does not end
\* the process, in development posture as well.
C21_TimedOutErrorsAreRecoverable ==
  /\ lastHandled.valid
  /\ lastHandled.code = "ETIMEDOUT" \/ lastHandled.class = "timeout"
  => /\ ~lastHandled.postConnected
     /\ lastHandled.exit = "running"


\* C22: in a stdio server no diagnostic text is ever written to standard
\* output: every write of the substituted context logger, of the negotiator
\* and of the upstream API functions goes to stderr (or to the client's own
\* logger).
C22_NoDiagnosticOnStdout ==
  \A w \in diagnostics : w.stream # "stdout"


\* C23: for every registered tool, when the arguments of a call fail the
\* tool's adapted schema the handler is not executed and the caller receives
\* a resolved failure envelope; the handler runs only after validation has
\* succeeded.
C23_InvalidArgumentsSkipHandler ==
  /\ lastCall.valid
  /\ SafeParse(lastCall.tool, lastCall.argsOk) # "ok"
  => /\ ~lastCall.handlerRan
     /\ lastCall.settled = "resolved"

\* C24: every tool registered through addTool has, in the registry, a
\* parameters object with safeParse and, when it has an execute function, the
\* containing function around it, whether it was registered before or after
\* start() was called.
C24_EveryRegisteredToolIsWrapped ==
  \A i \in 1..Len(mcpTools) :
    mcpTools[i].isTool =>
      /\ mcpTools[i].safeParse # "none"
      /\ mcpTools[i].execute # "missing" => mcpTools[i].contained

\* C25: tool names are unique within the registry, and an addTool call with
\* a name that is already registered raises an error to its caller.
C25_ToolNamesAreUnique ==
  /\ \A i \in 1..Len(mcpTools) : \A j \in 1..Len(mcpTools) :
       mcpTools[i].isTool /\ mcpTools[j].isTool /\ mcpTools[i].name = mcpTools[j].name
         => i = j
  /\ lastAdd.valid /\ lastAdd.duplicate => lastAdd.raised /\ ~lastAdd.stored


\* the description is malformed in a way that leaves no shape to check: an
\* unsupported type tag, or a reference, which is never resolved
Unsupported(schema) ==
  \/ schema.ref
  \/ schema.type \notin {"object", "array", "string", "number", "integer",
                         "boolean", "null"}

HasKey(value, key) == \E i \in 1..Len(value.kids) : value.kids[i].k = key

\* the shape declares a property named key
DeclaresKey(schema, key) ==
  \E i \in 1..Len(schema.properties) : schema.properties[i].k = key

\* C27: for an object shape, a value that lacks a required field is rejected,
\* and a value that has a field the shape does not declare is rejected unless
\* additionalProperties is true (fields that are not required may be absent).
C27_ObjectShapeFields ==
  /\ lastParse.valid
  /\ lastParse.schema.type = "object" /\ ~lastParse.schema.ref
  /\ lastParse.value.t = "object"
  /\ lastParse.result = "ok"
  => /\ \A key \in lastParse.schema.required : HasKey(lastParse.value, key)
     /\ lastParse.schema.additionalProperties # "true" =>
          \A i \in 1..Len(lastParse.value.kids) :
            DeclaresKey(lastParse.schema, lastParse.value.kids[i].k)

\* C28: for a string shape, an accepted value satisfies every declared
\* constraint at once: minLength, maxLength, pattern and format (email, url,
\* date-time).
C28_StringConstraintsAllHold ==
  /\ lastParse.valid
  /\ lastParse.schema.type = "string" /\ ~lastParse.schema.ref
  /\ ~InvalidPattern(lastParse.schema.pattern)
  /\ lastParse.result = "ok"
  => /\ lastParse.value.t = "string"
     /\ lastParse.schema.minLength.def =>
          StrLen(lastParse.value.s) >= lastParse.schema.minLength.v
     /\ lastParse.schema.maxLength.def =>
          StrLen(lastParse.value.s) <= lastParse.schema.maxLength.v
     /\ MatchesPattern(lastParse.value.s, lastParse.schema.pattern)
     /\ MatchesFormat(lastParse.value.s, lastParse.schema.format)


\* an object that is neither an Error, a content item nor a content-array
\* wrapper, and that JSON.stringify can serialize
PlainObject(result) ==
  /\ result.t \in {"object", "array"}
  /\ ~HasContentType(result)
  /\ ~(Truthy(Get(result, "content")) /\ Get(result, "content").t = "array")
  /\ ~StringifyThrows(result)

\* C29: normalizeResult maps null and undefined to the fixed no-result
\* message, a string to a text item with that string, any other primitive to
\* a text item with its string form, and any object that is neither an Error,
\* a content item nor a content-array wrapper to a text item whose text is
\* the JSON serialization of the whole object.
C29_OtherObjectsSerializedWhole ==
  toolCall.valid /\ toolCall.handler.kind = "return"
                 /\ toolCall.settled = "resolved" =>
    LET result == toolCall.handler.v
    IN /\ result.t \in {"null", "undefined"} =>
            toolCall.value =
              TextItem(JsStr("Operation completed successfully with no result"))
       /\ result.t = "string" => toolCall.value = TextItem(result)
       /\ result.t \in {"number", "boolean", "bigint"} =>
            toolCall.value = TextItem(JsStr(ToJsString(result)))
       /\ PlainObject(result) =>
            toolCall.value = TextItem(JsonStringify(result, "  ").v)


\* C30: withTimeout(p, ms) settles exactly once: with p's outcome when p
\* settles before the timer fires, with the timeout error when the timer
\* fires first; after the timeout error a later completion of p is not
\* delivered to the caller.
C30_WithTimeoutSettlesOnce ==
  \A i \in 1..MaxRaces :
    /\ races[i].deliveries <= 1
    /\ races[i].first = "none" =>
         races[i].outcome = "pending" /\ races[i].deliveries = 0
    /\ races[i].first = "promise" =>
         races[i].outcome = races[i].promise /\ races[i].deliveries = 1
    /\ races[i].first = "timer" =>
         races[i].outcome = "timeout" /\ races[i].deliveries = 1

\* the timer fired first and the promise fulfilled afterwards: the caller has
\* the timeout error, once
C30_Witness ==
  \E i \in 1..MaxRaces :
    /\ races[i].first = "timer"
    /\ races[i].promise = "fulfilled"
    /\ races[i].outcome = "timeout"
    /\ races[i].deliveries = 1


\* C31: withRetry calls fn again only after a failure whose code or status is
\* in the retryableErrors list, the empty default included; any other error
\* ends the loop at once and is thrown to the caller.
C31_RetryOnlyAllowListed ==
  /\ retry.recalled => InAllowList(retry.recalledAfter, retry.list)
  /\ retry.phase = "waiting" => InAllowList(retry.lastError, retry.list)


\* C32: whenever an upstream call is answered with 401, the cached credential
\* is invalidated: no client's cache holds a token that a 401 has answered,
\* so the next acquisition asks for a fresh token.
C32_RejectedTokenLeavesTheCache ==
  \A impl \in ApiClients : tokenCaches[impl] \notin rejectedTokens[impl]


\* C37: when two requests of apiClient sent with the same cached token are
\* both answered with 401, each of them is retried exactly once, in whatever
\* order the rejections and the token refresh complete; and no request is
\* retried more than once for a 401.
C37_BothRejectedRequestsRetryOnce ==
  /\ \A i \in 1..MaxRequests : apiRequests[i].retries <= 1
  /\ \A i, j \in 1..MaxRequests :
       /\ i # j
       /\ apiRequests[i].impl = DIRECT /\ apiRequests[j].impl = DIRECT
       /\ apiRequests[i].rejected # 0
       /\ apiRequests[i].rejected = apiRequests[j].rejected
       => /\ apiRequests[i].retries = 1
          /\ apiRequests[i].phase # "acquiring" /\ apiRequests[i].outcome # "authFailed"
               => apiRequests[i].token # apiRequests[i].rejected


\* C33: within the startServer() call of the entry program the waits before
\* successive retries are 2000 ms and then each min(previous x 1.5, 30000) ms,
\* non-decreasing and never above 30000 ms (the waits are held in half
\* milliseconds), and the transport start is attempted at most 6 times.
C33_StartBackoffAndAttempts ==
  start.call = "initial" =>
    /\ start.attempts <= 6
    /\ \A k \in 1..Len(start.waits) :
         /\ start.waits[k] = IF k = 1 THEN 2 * 2000
                             ELSE Min((start.waits[k - 1] * 3) \div 2, 2 * 30000)
         /\ start.waits[k] <= 2 * 30000
         /\ k > 1 => start.waits[k - 1] <= start.waits[k]

\* the sixth attempt of the startServer() call has failed after waits of
\* 2000, 3000, 4500, 6750 and 10125 ms
C33_Witness ==
  /\ start.call = "initial"
  /\ start.phase \in {"exhausted", "failed"}
  /\ start.attempts = 6
  /\ start.waits = <<4000, 6000, 9000, 13500, 20250>>

\* C38: in production posture, once a transport start has succeeded no
\* further start is attempted while the server runs, and at most one
\* periodic restart timer is active at any time.
C38_NoStartAfterSuccessOneRestartTimer ==
  nodeEnv = "production" /\ Running =>
    /\ ~start.again
    /\ restartIntervals <= 1


\* C39: after any number of withTimeout calls whose operations have all
\* settled before their deadline, no timer created by withTimeout is live.
C39_NoTimerLeftBehind ==
  (\A i \in 1..MaxRaces : races[i].called => races[i].first = "promise")
    => Cardinality({i \in 1..MaxRaces : races[i].timer = "pending"}) = 0


\* C34: whenever the tracker has stayed disconnected for more than 5 minutes,
\* a subsequent periodic check of the 'reconnection-handler' interval runs:
\* the interval is still live.
C34_LongDisconnectionIsChecked ==
  entry = INDEX_TS /\ Running /\ LongDisconnection => ReconnectionHandlerLive

\* the recovery actions of the 'reconnection-handler' interval never run
RecoveryNeverRuns == ~lastCheck.recovered

\* C35: the counter global.disconnectionCount can exceed 3: when the client
\* keeps going away and coming back, the 'Multiple disconnections detected'
\* branch is eventually executed.
C35_RepeatedDisconnectionsReachDeepCleanup ==
  ([]<>isConnected /\ []<>(~isConnected)) => <>(disconnectionCount > 3)

\* C36: with two getWorkflowSteps calls in flight, of which one timed out and
\* marked the tracker disconnected, the later success of the other does not
\* set the tracker back to connected; and a call that starts while the
\* tracker is disconnected is refused without calling the upstream.
C36_StaleSuccessDoesNotReconnect ==
  \A i \in 1..MaxSteps :
    /\ steps[i].overlapped /\ steps[i].outcome = "success"
         => ~steps[i].reconnected
    /\ steps[i].startedDisconnected
         => steps[i].outcome = "refused" /\ ~steps[i].upstream

\* C40: the handler registered for 'connect' through the compatibility layer
\* is invoked exactly once per connect event, and an exception it throws does
\* not propagate out of the dispatch.
C40_ConnectHandlerOnceAndContained ==
  connectEvent.dispatch.valid /\ connectEvent.dispatch.event = "connect" =>
    /\ ~connectEvent.dispatch.propagated
    /\ \A k \in 1..Len(connectEvent.dispatch.calls) :
         connectEvent.listeners[k].event = "connect"
           => connectEvent.dispatch.calls[k] = 1

=============================================================================
